---- MODULE Spec2Model ----
(***************************************************************************)
(* Conversational flow engine of the business-listing assistant            *)
(* (src/app.py, src/business/*.py).                                        *)
(*                                                                         *)
(* Text is modelled as a sequence of one-character strings, so that        *)
(* trimming, lowercasing, digit filtering and substring tests are computed *)
(* the way the Python code computes them.                                  *)
(***************************************************************************)
EXTENDS Integers, Sequences, FiniteSets, TLC

(***************************************************************************)
(* Bounds of the model.                                                    *)
(***************************************************************************)
\* number of user turns explored in one session
MaxTurns == 8

\* number of changes of the listings table explored in one session
MaxWrites == 1

(***************************************************************************)
(* Text primitives (Python str methods used by the code).                  *)
(***************************************************************************)
Digits == {"0","1","2","3","4","5","6","7","8","9"}

\* str.isdigit on one character
IsDigit(c) == c \in Digits

\* characters removed by str.strip() / separating words in str.split()
IsSpace(c) == c \in {" ", "\t", "\n"}

\* str.lower on one character
LowerChar(c) ==
  CASE c = "A" -> "a" [] c = "B" -> "b" [] c = "C" -> "c" [] c = "D" -> "d"
    [] c = "E" -> "e" [] c = "F" -> "f" [] c = "G" -> "g" [] c = "H" -> "h"
    [] c = "I" -> "i" [] c = "J" -> "j" [] c = "K" -> "k" [] c = "L" -> "l"
    [] c = "M" -> "m" [] c = "N" -> "n" [] c = "O" -> "o" [] c = "P" -> "p"
    [] c = "Q" -> "q" [] c = "R" -> "r" [] c = "S" -> "s" [] c = "T" -> "t"
    [] c = "U" -> "u" [] c = "V" -> "v" [] c = "W" -> "w" [] c = "X" -> "x"
    [] c = "Y" -> "y" [] c = "Z" -> "z" [] OTHER -> c

\* str.lower
Lower(s) == [i \in 1..Len(s) |-> LowerChar(s[i])]

\* str.strip
Strip(s) ==
  LET keep == {i \in 1..Len(s) : ~IsSpace(s[i])}
  IN  IF keep = {} THEN <<>>
      ELSE LET lo == CHOOSE i \in keep : \A j \in keep : i <= j
               hi == CHOOSE i \in keep : \A j \in keep : i >= j
           IN  SubSeq(s, lo, hi)

\* Python "sub in s"
Contains(sub, s) ==
  \E i \in 0..(Len(s) - Len(sub)) : SubSeq(s, i + 1, i + Len(sub)) = sub

\* s.startswith(p)
StartsWith(s, p) == Len(p) <= Len(s) /\ SubSeq(s, 1, Len(p)) = p

\* s.endswith(p)
EndsWith(s, p) == Len(p) <= Len(s) /\ SubSeq(s, Len(s) - Len(p) + 1, Len(s)) = p

\* the characters of the model in code-point order (Python compares
\* strings by code point)
Alphabet ==
  <<"\t", "\n", " ", "'", "(", ")", "-", ".", "/",
    "0","1","2","3","4","5","6","7","8","9",
    "A","B","C","D","E","F","G","H","I","J","K","L","M",
    "N","O","P","Q","R","S","T","U","V","W","X","Y","Z", "_",
    "a","b","c","d","e","f","g","h","i","j","k","l","m",
    "n","o","p","q","r","s","t","u","v","w","x","y","z">>

\* position of a character in code-point order
Code(c) == CHOOSE i \in 1..Len(Alphabet) : Alphabet[i] = c

\* Python s < t on strings
RECURSIVE StrLess(_, _)
StrLess(s, t) ==
  IF t = <<>> THEN FALSE
  ELSE IF s = <<>> THEN TRUE
  ELSE IF s[1] = t[1] THEN StrLess(Tail(s), Tail(t))
  ELSE Code(s[1]) < Code(t[1])

\* str.isupper / str.islower on one character
IsUpperChar(c) == LowerChar(c) # c
IsLowerChar(c) == \E i \in 1..Len(Alphabet) : Alphabet[i] # c /\ LowerChar(Alphabet[i]) = c

\* str.upper on one character
UpperChar(c) ==
  IF IsLowerChar(c)
  THEN Alphabet[CHOOSE i \in 1..Len(Alphabet) :
                  Alphabet[i] # c /\ LowerChar(Alphabet[i]) = c]
  ELSE c

\* str.title: a cased character is upper-cased after an uncased one and
\* lower-cased after a cased one
Title(s) ==
  [i \in 1..Len(s) |->
     IF i > 1 /\ (IsUpperChar(s[i - 1]) \/ IsLowerChar(s[i - 1]))
     THEN LowerChar(s[i]) ELSE UpperChar(s[i])]

\* str.replace(old, new): leftmost non-overlapping occurrences
RECURSIVE Replace(_, _, _)
Replace(s, old, new) ==
  IF Len(s) < Len(old) \/ s = <<>> THEN s
  ELSE IF StartsWith(s, old)
  THEN new \o Replace(SubSeq(s, Len(old) + 1, Len(s)), old, new)
  ELSE <<s[1]>> \o Replace(Tail(s), old, new)

\* str.split(): the maximal runs of non-space characters
RECURSIVE Split(_)
Split(s) ==
  IF s = <<>> THEN <<>>
  ELSE IF IsSpace(s[1]) THEN Split(Tail(s))
  ELSE LET stops == {i \in 1..Len(s) : IsSpace(s[i])}
           n == IF stops = {} THEN Len(s)
                ELSE (CHOOSE i \in stops : \A j \in stops : i <= j) - 1
       IN  <<SubSeq(s, 1, n)>> \o Split(SubSeq(s, n + 1, Len(s)))

\* " ".join(words)
RECURSIVE Join(_)
Join(words) ==
  IF words = <<>> THEN <<>>
  ELSE IF Len(words) = 1 THEN words[1]
  ELSE words[1] \o <<" ">> \o Join(Tail(words))

(***************************************************************************)
(* src/business/business_utils.py                                          *)
(***************************************************************************)
\* a normalization that drops a leading zero
normalize_phone_dropping_zero(phone) ==
  IF SelectSeq(phone, IsDigit) # <<>> /\ SelectSeq(phone, IsDigit)[1] = "0"
  THEN Tail(SelectSeq(phone, IsDigit)) ELSE SelectSeq(phone, IsDigit)

\* keeps the digit characters, in order
normalize_phone(phone) == SelectSeq(phone, IsDigit)

(***************************************************************************)
(* Utterances and field values used as inputs.                             *)
(***************************************************************************)
U_hi == <<"h","i">>
U_show == <<"s","h","o","w"," ","m","y"," ","b","u","s","i","n","e","s","s">>
U_update == <<"u","p","d","a","t","e"," ","m","y"," ","b","u","s","i","n","e","s","s">>
U_add == <<"a","d","d"," ","b","u","s","i","n","e","s","s">>
U_find == <<"f","i","n","d"," ","c","a","f","e"," ","p","u","n","e">>
U_findx == <<"f","i","n","d"," ","z","z","z">>
U_findonly == <<"f","i","n","d">>
U_general == <<"b","a","k","e","r","y">>
U_cancel == <<"c","a","n","c","e","l">>
U_Stop == <<" ","S","t","o","p"," ">>
U_done == <<"d","o","n","e">>
U_no == <<"n","o">>
U_junk == <<"w","h","a","t">>
P_known == <<"9","8","7","3","3"," ","1","2","3","9","9">>
P_other == <<"5","5","5","-","0","1","9","9">>
P_unknown == <<"7","0","0"," ","1","2","3","4">>
P_short == <<"1","2","3","4","5">>
S_name == <<"n","a","m","e">>
S_address == <<"a","d","d","r","e","s","s">>
S_phone == <<"p","h","o","n","e">>
S_phone_number == <<"p","h","o","n","e"," ","n","u","m","b","e","r">>
S_website == <<"w","e","b","s","i","t","e">>
S_category == <<"c","a","t","e","g","o","r","y">>
S_city == <<"c","i","t","y">>
S_state == <<"s","t","a","t","e">>
S_Website == <<"W","e","b","s","i","t","e">>
V_site == <<"x",".","i","o">>
V_newphone == <<"(","7","0","0",")"," ","1","2","3","4">>
V_blank == <<" ">>
A_J == <<"J">>
A_Joes == <<"J","o","e","'","s">>
A_Elm == <<"E","l","m">>
A_addr == <<"1"," ","E","l","m">>
A_skip == <<"s","k","i","p">>
A_SKIP == <<"S","k","i","p">>
A_none == <<"n","o","n","e">>
A_na == <<"n","/","a">>
A_dash == <<"-">>
A_c == <<"c">>
A_Cafe == <<"C","a","f","e">>
A_Pune == <<"P","u","n","e">>

\* the empty string
Empty == <<>>

\* what the user may type, by the prompt being answered
Inputs(mode, step) ==
  CASE mode = "none" ->
         {U_hi, U_show, U_update, U_add, U_find, U_findx, U_findonly,
          U_general}
    [] mode = "show" -> {P_known, P_unknown, P_short, U_show, U_Stop}
    [] mode = "update" /\ step = 1 -> {P_known, P_unknown, P_short, U_cancel}
    [] mode = "update" /\ step = 2 ->
         {<<"1">>, <<"2">>, <<"3">>, <<"4">>, <<"5">>, <<"6">>, <<"7">>,
          S_phone, U_done, U_add, U_cancel}
    [] mode = "update" /\ step = 3 -> {V_newphone, V_blank, U_done, U_cancel}
    [] mode = "add" /\ step = 1 -> {A_J, A_Joes, U_cancel}
    [] mode = "add" /\ step = 2 -> {P_short, P_known, V_newphone, U_cancel}
    [] mode = "add" /\ step = 3 -> {A_Elm, A_addr, U_cancel}
    [] mode = "add" /\ step = 4 -> {A_na, A_dash, U_show, U_cancel}
    [] mode = "add" /\ step = 5 -> {A_c, A_Cafe, U_cancel}
    [] mode = "add" /\ step = 6 -> {A_skip, A_na, V_blank, U_cancel}
    [] mode = "add" /\ step = 7 -> {A_SKIP, A_none, A_dash, U_Stop}
    [] OTHER -> {}

\* the utterances typed when no flow is active
IdleInputs == Inputs("none", 0)

\* every utterance typed at some prompt
Utterances ==
  UNION {Inputs(mode, step) : mode \in {"none", "show", "update", "add"},
                              step \in 0..7}

(***************************************************************************)
(* Listings store (table google_maps_listings).                            *)
(***************************************************************************)
\* Python None; an optional number is <<>> (None / NULL) or <<n>>
None == [tag |-> "None"]

\* the rows of the table at session start, in rowid order; rows 1 and 2
\* share one identity key and row 2 is the more recent one
SeedStore ==
  << [id |-> 1, name |-> A_Joes, address |-> <<"1","2"," ","E","l","m">>,
      phone_number |-> P_known, website |-> Empty, category |-> A_Cafe,
      subcategory |-> Empty, city |-> <<"G","o","a">>, state |-> <<"G","A">>,
      area |-> Empty, reviews_count |-> 5, reviews_average |-> <<40>>,
      created_at |-> 1],
     [id |-> 2, name |-> <<"B","a","k","e">>, address |-> <<"9"," ","O","a","k">>,
      phone_number |-> <<"9","8","7","3","3","1","2","3","9","9">>,
      website |-> <<"b",".","i","o">>, category |-> U_general,
      subcategory |-> Empty, city |-> A_Pune, state |-> <<"M","H">>,
      area |-> Empty, reviews_count |-> 2, reviews_average |-> <<45>>,
      created_at |-> 2],
     [id |-> 3, name |-> <<"Z","e","n">>, address |-> <<"3"," ","A","s","h">>,
      phone_number |-> P_other, website |-> Empty, category |-> <<"S","p","a">>,
      subcategory |-> Empty, city |-> A_Pune, state |-> <<"M","H">>,
      area |-> Empty, reviews_count |-> 0, reviews_average |-> <<>>,
      created_at |-> 2] >>

\* list.sort(key=created_at, reverse=True): stable, most recent first
RECURSIVE SortByCreatedDesc(_)
SortByCreatedDesc(rows) ==
  IF Len(rows) <= 1 THEN rows
  ELSE LET m == CHOOSE i \in 1..Len(rows) :
                  /\ \A j \in 1..Len(rows) : rows[j].created_at <= rows[i].created_at
                  /\ \A j \in 1..(i - 1) : rows[j].created_at < rows[i].created_at
           rest == [k \in 1..(Len(rows) - 1) |-> IF k < m THEN rows[k] ELSE rows[k + 1]]
       IN  <<rows[m]>> \o SortByCreatedDesc(rest)

\* a lookup that returns the matches in table order
get_businesses_by_phone_unsorted(db, phone) ==
  LET normalized_phone == normalize_phone(phone)
      SameIdentity(row) == normalize_phone(row.phone_number) = normalized_phone
  IN  IF normalized_phone = Empty THEN <<>>
      ELSE SelectSeq(db, SameIdentity)

\* src/business/business_by_phone.py: exact match on the digit-only
\* projection, whole table scanned, most recent first
get_businesses_by_phone(db, phone) ==
  LET normalized_phone == normalize_phone(phone)
      SameIdentity(row) == normalize_phone(row.phone_number) = normalized_phone
  IN  IF normalized_phone = Empty THEN <<>>
      ELSE SortByCreatedDesc(SelectSeq(db, SameIdentity))

\* src/business/business_update.py
ALLOWED_FIELDS ==
  {"name", "address", "phone_number", "website", "category", "subcategory",
   "area", "city", "state"}

\* a filter that lets every key through
filtered_updates_unfiltered(updates) ==
  [k \in DOMAIN updates |->
     IF k = "phone_number" THEN normalize_phone(Strip(updates[k]))
     ELSE Strip(updates[k])]

\* the allow-listed entries of updates, values stripped, phone normalized
filtered_updates(updates) ==
  [k \in (DOMAIN updates) \cap ALLOWED_FIELDS |->
     IF k = "phone_number" THEN normalize_phone(Strip(updates[k]))
     ELSE Strip(updates[k])]

\* rowids matched by update_business: by id first, by identity key only
\* when no row has the id (business_id is <<>> for None, phone_number is
\* Empty for None)
matching_rowids(db, business_id, phone_number) ==
  LET by_id == IF business_id = <<>> THEN {}
               ELSE {i \in 1..Len(db) : db[i].id = business_id[1]}
      by_phone == IF normalize_phone(phone_number) = Empty THEN {}
                  ELSE {i \in 1..Len(db) :
                          normalize_phone(db[i].phone_number)
                            = normalize_phone(phone_number)}
  IN  IF by_id # {} THEN by_id ELSE by_phone

\* update_business(business_id, updates, phone_number); fails is TRUE when
\* the storage raises inside the call (caught there: rollback, False)
update_business(db, business_id, updates, phone_number, fails) ==
  LET fu   == filtered_updates(updates)
      rows == matching_rowids(db, business_id, phone_number)
  IN  IF DOMAIN updates = {} \/ DOMAIN fu = {} THEN [ok |-> FALSE, db |-> db]
      ELSE IF fails THEN [ok |-> FALSE, db |-> db]
      ELSE IF rows = {} THEN [ok |-> FALSE, db |-> db]
      ELSE [ok |-> TRUE,
            db |-> [i \in 1..Len(db) |->
                      IF i \in rows
                      THEN [f \in DOMAIN db[i] |->
                              IF f \in DOMAIN fu THEN fu[f] ELSE db[i][f]]
                      ELSE db[i]]]

\* an insert without the test for an identical listing
existing_rows_none(db, name, address, area, city, state, normalized_phone) == {}

\* src/business/business_add.py: the rows equal to the new one on
\* name/address/area/city/state (case-insensitively) and on identity key
existing_rows(db, name, address, area, city, state, normalized_phone) ==
  {i \in 1..Len(db) :
     /\ Lower(db[i].name) = Lower(name)
     /\ Lower(db[i].address) = Lower(address)
     /\ Lower(db[i].area) = Lower(area)
     /\ Lower(db[i].city) = Lower(city)
     /\ Lower(db[i].state) = Lower(state)
     /\ normalize_phone(db[i].phone_number) = normalized_phone}

\* cur.lastrowid of a table whose rows are never deleted
lastrowid(db) ==
  IF Len(db) = 0 THEN 1
  ELSE 1 + (CHOOSE m \in {db[i].id : i \in 1..Len(db)} :
              \A i \in 1..Len(db) : db[i].id <= m)

\* add_business(...): returns the existing id of an identical listing,
\* else inserts a row stamped with the current time and returns its id
add_business(db, data, created_at) ==
  LET normalized_phone == normalize_phone(data.phone_number)
      area == IF "area" \in DOMAIN data THEN data.area ELSE Empty
      dup == existing_rows(db, data.name, data.address, area, data.city,
                           data.state, normalized_phone)
      new_id == lastrowid(db)
      row == [id |-> new_id, name |-> data.name, address |-> data.address,
              phone_number |-> normalized_phone, website |-> data.website,
              category |-> data.category, subcategory |-> Empty,
              city |-> data.city, state |-> data.state, area |-> area,
              reviews_count |-> 0, reviews_average |-> <<>>,
              created_at |-> created_at]
  IN  IF dup # {}
      THEN [new_id |-> db[CHOOSE i \in dup : \A j \in dup : i <= j].id, db |-> db]
      ELSE [new_id |-> new_id, db |-> Append(db, row)]

(***************************************************************************)
(* Phrase tables and intent classification (src/app.py).                   *)
(***************************************************************************)
\* src/app.py is_greeting
greetings ==
  {<<"h","i">>,
   <<"h","e","l","l","o">>,
   <<"h","e","y">>,
   <<"g","o","o","d"," ","m","o","r","n","i","n","g">>,
   <<"g","o","o","d"," ","a","f","t","e","r","n","o","o","n">>,
   <<"g","o","o","d"," ","e","v","e","n","i","n","g">>,
   <<"h","o","w","d","y">>,
   <<"h","o","l","a">>,
   <<"g","r","e","e","t","i","n","g","s">>,
   <<"s","u","p">>,
   <<"w","h","a","t","'","s"," ","u","p">>,
   <<"y","o">>,
   <<"n","a","m","a","s","t","e">> }

\* src/app.py detect_intent
search_keywords ==
  {<<"s","e","a","r","c","h"," ","f","o","r">>,
   <<"f","i","n","d"," ","a">>,
   <<"l","o","o","k","i","n","g"," ","f","o","r">>,
   <<"n","e","e","d"," ","a">>,
   <<"w","a","n","t"," ","a">>,
   <<"s","e","a","r","c","h">>,
   <<"f","i","n","d">>,
   <<"l","o","o","k","i","n","g">>,
   <<"r","e","c","o","m","m","e","n","d">>,
   <<"s","u","g","g","e","s","t">>,
   <<"n","e","a","r"," ","m","e">>,
   <<"b","e","s","t">>,
   <<"t","o","p">>,
   <<"w","h","e","r","e"," ","c","a","n"," ","i"," ","f","i","n","d">> }

show_keywords ==
  {<<"s","h","o","w"," ","m","y"," ","b","u","s","i","n","e","s","s">>,
   <<"v","i","e","w"," ","m","y"," ","b","u","s","i","n","e","s","s">>,
   <<"d","i","s","p","l","a","y"," ","b","u","s","i","n","e","s","s">>,
   <<"g","e","t"," ","m","y"," ","b","u","s","i","n","e","s","s">>,
   <<"m","y"," ","b","u","s","i","n","e","s","s"," ","d","e","t","a","i","l","s">>,
   <<"b","u","s","i","n","e","s","s"," ","i","n","f","o">> }

update_keywords ==
  {<<"u","p","d","a","t","e"," ","m","y"," ","b","u","s","i","n","e","s","s">>,
   <<"e","d","i","t"," ","d","e","t","a","i","l","s">>,
   <<"c","h","a","n","g","e"," ","m","y"," ","b","u","s","i","n","e","s","s">>,
   <<"m","o","d","i","f","y"," ","b","u","s","i","n","e","s","s">>,
   <<"u","p","d","a","t","e"," ","b","u","s","i","n","e","s","s">>,
   <<"e","d","i","t"," ","b","u","s","i","n","e","s","s">>,
   <<"c","h","a","n","g","e"," ","d","e","t","a","i","l","s">>,
   <<"u","p","d","a","t","e"," ","d","e","t","a","i","l","s">>,
   <<"e","d","i","t"," ","m","y"," ","b","u","s","i","n","e","s","s">>,
   <<"m","o","d","i","f","y"," ","m","y"," ","b","u","s","i","n","e","s","s">>,
   <<"f","i","x"," ","m","y"," ","b","u","s","i","n","e","s","s">>,
   <<"c","o","r","r","e","c","t"," ","d","e","t","a","i","l","s">> }

add_keywords ==
  {<<"a","d","d"," ","b","u","s","i","n","e","s","s">>,
   <<"r","e","g","i","s","t","e","r"," ","m","y"," ","b","u","s","i","n","e","s","s">>,
   <<"c","r","e","a","t","e"," ","b","u","s","i","n","e","s","s">>,
   <<"n","e","w"," ","b","u","s","i","n","e","s","s">>,
   <<"a","d","d"," ","m","y"," ","b","u","s","i","n","e","s","s">>,
   <<"r","e","g","i","s","t","e","r"," ","b","u","s","i","n","e","s","s">>,
   <<"l","i","s","t"," ","m","y"," ","b","u","s","i","n","e","s","s">>,
   <<"a","d","d"," ","a"," ","b","u","s","i","n","e","s","s">>,
   <<"r","e","g","i","s","t","e","r"," ","a"," ","b","u","s","i","n","e","s","s">>,
   <<"a","d","d"," ","n","e","w"," ","b","u","s","i","n","e","s","s">>,
   <<"c","r","e","a","t","e"," ","n","e","w"," ","b","u","s","i","n","e","s","s">> }

\* src/app.py process_chatbot_response: intent words deleted from the query, in this order
remove_words ==
  <<<<"s","e","a","r","c","h"," ","f","o","r">>,
   <<"f","i","n","d"," ","a">>,
   <<"l","o","o","k","i","n","g"," ","f","o","r">>,
   <<"n","e","e","d"," ","a">>,
   <<"w","a","n","t"," ","a">>,
   <<"s","e","a","r","c","h">>,
   <<"f","i","n","d">>,
   <<"l","o","o","k","i","n","g">>,
   <<"r","e","c","o","m","m","e","n","d">>,
   <<"s","u","g","g","e","s","t">>,
   <<"w","h","e","r","e"," ","c","a","n"," ","i"," ","f","i","n","d">>,
   <<"b","e","s","t">>,
   <<"t","o","p">>,
   <<"n","e","a","r"," ","m","e">> >>

\* src/app.py parse_search_query
stop_words ==
  <<<<"b","e","s","t">>,
   <<"t","o","p">>,
   <<"n","e","a","r">>,
   <<"m","e">>,
   <<"i","n">>,
   <<"t","h","e">>,
   <<"a">>,
   <<"a","n">>,
   <<"f","i","n","d">>,
   <<"s","e","a","r","c","h">>,
   <<"f","o","r">>,
   <<"l","o","o","k","i","n","g">>,
   <<"n","e","e","d">>,
   <<"w","a","n","t">>,
   <<"g","o","o","d">>,
   <<"g","r","e","a","t">> >>

\* src/app.py handle_active_flow
cancel_words ==
  {<<"c","a","n","c","e","l">>,
   <<"e","x","i","t">>,
   <<"q","u","i","t">>,
   <<"s","t","o","p">>,
   <<"n","e","v","e","r","m","i","n","d">> }

\* src/app.py handle_update_flow step 2
done_words ==
  {<<"d","o","n","e">>,
   <<"f","i","n","i","s","h">>,
   <<"e","x","i","t">>,
   <<"n","o">>,
   <<"c","a","n","c","e","l">> }


\* src/app.py handle_add_flow step 4 (website)
skip_words_website == {A_skip, A_none, A_na, A_dash, Empty}

\* a skip list for city and state that lacks the word "skip"
skip_words_place_without_skip == {A_none}

\* src/app.py handle_add_flow steps 6 and 7 (city, state)
skip_words_place == {A_skip, A_none}

\* some phrase of the table occurs in the text
AnyIn(phrases, text) == \E kw \in phrases : Contains(kw, text)

\* src/app.py is_greeting
is_greeting(text) == AnyIn(greetings, Strip(Lower(text)))

\* a cascade that tests the show and update phrases before the search phrases
detect_intent_show_first(text) ==
  LET text_lower == Strip(Lower(text))
  IN  IF is_greeting(text_lower) THEN "greeting"
      ELSE IF AnyIn(show_keywords, text_lower) THEN "show"
      ELSE IF AnyIn(update_keywords, text_lower) THEN "update"
      ELSE IF AnyIn(search_keywords, text_lower) THEN "search"
      ELSE IF AnyIn(add_keywords, text_lower) THEN "add"
      ELSE "general"

\* src/app.py detect_intent: ordered cascade, first match wins
detect_intent(text) ==
  LET text_lower == Strip(Lower(text))
  IN  IF is_greeting(text_lower) THEN "greeting"
      ELSE IF AnyIn(search_keywords, text_lower) THEN "search"
      ELSE IF AnyIn(show_keywords, text_lower) THEN "show"
      ELSE IF AnyIn(update_keywords, text_lower) THEN "update"
      ELSE IF AnyIn(add_keywords, text_lower) THEN "add"
      ELSE "general"

\* detect_intent of the utterances, computed once
IntentOf == [u \in Utterances |-> detect_intent(u)]

\* src/app.py handle_update_flow step 2: selector -> field key
field_mapping ==
  { <<(<<"1">>), "name">>, <<S_name, "name">>,
    <<(<<"2">>), "address">>, <<S_address, "address">>,
    <<(<<"3">>), "phone">>, <<S_phone, "phone_number">>,
    <<S_phone_number, "phone_number">>,
    <<(<<"4">>), "website">>, <<S_website, "website">>,
    <<(<<"5">>), "category">>, <<S_category, "category">>,
    <<(<<"6">>), "city">>, <<S_city, "city">>,
    <<(<<"7">>), "state">>, <<S_state, "state">> }

\* the selectors of the menu
Selectors == {m[1] : m \in field_mapping}

\* field_mapping[field_input]
FieldKey(field_input) == (CHOOSE m \in field_mapping : m[1] = field_input)[2]

(***************************************************************************)
(* Query parsing, spelling correction and tiered search (src/app.py).      *)
(***************************************************************************)
\* one round of parse_search_query's loop for one stop word
StripStopWord(q, word) ==
  LET inner == Replace(q, <<" ">> \o word \o <<" ">>, <<" ">>)
      head  == IF StartsWith(inner, word \o <<" ">>)
               THEN SubSeq(inner, Len(word) + 2, Len(inner)) ELSE inner
  IN  IF EndsWith(head, <<" ">> \o word)
      THEN SubSeq(head, 1, Len(head) - Len(word) - 1) ELSE head

\* the loop over stop_words, from the i-th word on
RECURSIVE StripStopWords(_, _)
StripStopWords(q, i) ==
  IF i > Len(stop_words) THEN q
  ELSE LET stripped == StripStopWord(q, stop_words[i])
       IN  IF stripped = q THEN StripStopWords(q, i + 1)
           ELSE StripStopWords(stripped, i + 1)

\* parse_search_query: (keyword, location)
parse_search_query(user_query) ==
  LET words == Split(StripStopWords(Strip(Lower(user_query)), 1))
  IN  IF words = <<>> THEN [keyword |-> Empty, location |-> Empty]
      ELSE IF Len(words) = 1 THEN [keyword |-> words[1], location |-> Empty]
      ELSE [keyword |-> Join(SubSeq(words, 1, Len(words) - 1)),
            location |-> words[Len(words)]]

\* the loop deleting the intent words from the query, from the i-th on
RECURSIVE RemoveWords(_, _)
RemoveWords(q, i) ==
  IF i > Len(remove_words) THEN q
  ELSE LET removed == Replace(q, remove_words[i], Empty)
       IN  IF removed = q THEN RemoveWords(q, i + 1)
           ELSE RemoveWords(removed, i + 1)

\* process_chatbot_response: the query left of an utterance with search
\* intent
search_query(u) == Strip(Join(Split(RemoveWords(Strip(Lower(u)), 1))))

\* search_query and parse_search_query of the utterances, computed once
QueryOf == [u \in Utterances |-> search_query(u)]
ParsedQueries ==
  [q \in IdleInputs \cup {QueryOf[u] : u \in IdleInputs} |-> parse_search_query(q)]
Parsed(q) ==
  IF q \in DOMAIN ParsedQueries THEN ParsedQueries[q] ELSE parse_search_query(q)

\* get_all_searchable_terms: lower-cased categories, cities, names and first
\* words of names longer than 2; empty when the read raises
get_all_searchable_terms(db, fails) ==
  LET rows == {db[i] : i \in 1..Len(db)}
      categories == {Lower(r.category) : r \in {x \in rows : x.category # Empty}}
      cities == {Lower(r.city) : r \in {x \in rows : x.city # Empty}}
      named == {Lower(r.name) : r \in {x \in rows : x.name # Empty}}
      first_word(name) == IF Split(name) # <<>> THEN Split(name)[1] ELSE name
      firsts == {first_word(n) : n \in {x \in named : Len(first_word(x)) > 2}}
  IN  IF fails THEN {} ELSE categories \cup cities \cup named \cup firsts

\* of the common blocks <<i, j, k>> the longest, then the one earliest in
\* a, then earliest in b; k = 0 when there is none
Longest(blocks) ==
  IF blocks = {} THEN <<1, 1, 0>>
  ELSE CHOOSE t \in blocks :
         \A o \in blocks :
           \/ t[3] > o[3]
           \/ t[3] = o[3] /\ t[1] < o[1]
           \/ t[3] = o[3] /\ t[1] = o[1] /\ t[2] <= o[2]

\* difflib: the longest common block of a and b
find_longest_match(a, b) ==
  Longest({t \in (1..Len(a)) \X (1..Len(b)) \X (1..Len(a)) :
             /\ t[1] + t[3] - 1 <= Len(a)
             /\ t[2] + t[3] - 1 <= Len(b)
             /\ SubSeq(a, t[1], t[1] + t[3] - 1) = SubSeq(b, t[2], t[2] + t[3] - 1)})

\* difflib: total size of the matching blocks of a and b: the longest
\* block m, then the blocks left and right of it
RECURSIVE matching_size(_, _)
RECURSIVE BlockSizes(_, _, _)
BlockSizes(a, b, m) ==
  IF m[3] = 0 THEN 0
  ELSE m[3] + matching_size(SubSeq(a, 1, m[1] - 1), SubSeq(b, 1, m[2] - 1))
            + matching_size(SubSeq(a, m[1] + m[3], Len(a)),
                            SubSeq(b, m[2] + m[3], Len(b)))

matching_size(a, b) ==
  IF a = <<>> \/ b = <<>> THEN 0
  ELSE BlockSizes(a, b, find_longest_match(a, b))

\* SequenceMatcher(a = x, b = word).ratio() as the fraction num / den
ratio(x, word) ==
  [num |-> 2 * matching_size(x, word), den |-> Len(x) + Len(word)]

\* real_quick_ratio(): the bound from the two lengths alone
real_quick_ratio(x, word) ==
  [num |-> 2 * (IF Len(x) < Len(word) THEN Len(x) ELSE Len(word)),
   den |-> Len(x) + Len(word)]

\* number of occurrences of c in s
Occurrences(s, c) == Cardinality({i \in 1..Len(s) : s[i] = c})

\* sum of g over the set S
RECURSIVE SumOver(_, _)
SumOver(S, g) ==
  IF S = {} THEN 0
  ELSE LET c == CHOOSE x \in S : TRUE IN g[c] + SumOver(S \ {c}, g)

\* quick_ratio(): the bound from the characters the two strings share
quick_ratio(x, word) ==
  LET chars == {word[i] : i \in 1..Len(word)}
      shared == [c \in chars |->
                   IF Occurrences(x, c) < Occurrences(word, c)
                   THEN Occurrences(x, c) ELSE Occurrences(word, c)]
  IN  [num |-> 2 * SumOver(chars, shared), den |-> Len(x) + Len(word)]

\* correct_spelling's default threshold 0.6, in tenths
threshold == 6

\* a ratio >= cutoff
AtLeast(r, cutoff) == r.den = 0 \/ 10 * r.num >= cutoff * r.den

\* score x sorts before score y in Python's order of (score, x) tuples,
\* largest first
Better(score, x, y) ==
  \/ score[x].num * score[y].den > score[y].num * score[x].den
  \/ score[x].num * score[y].den = score[y].num * score[x].den /\ StrLess(y, x)

\* heapq.nlargest(n, ...): the n best of the scored strings, best first
nlargest(n, score) ==
  [k \in 1..(IF Cardinality(DOMAIN score) < n THEN Cardinality(DOMAIN score) ELSE n) |->
     CHOOSE x \in DOMAIN score :
       Cardinality({y \in DOMAIN score : Better(score, y, x)}) = k - 1]

\* get_close_matches(word, possibilities, n, cutoff): the n best scoring
\* possibilities at or above the cutoff, best first
get_close_matches(word, possibilities, n, cutoff) ==
  nlargest(n, [x \in {p \in possibilities :
                        /\ AtLeast(real_quick_ratio(p, word), cutoff)
                        /\ AtLeast(quick_ratio(p, word), cutoff)
                        /\ AtLeast(ratio(p, word), cutoff)} |-> ratio(x, word)])

\* the first match, or the word itself when there is none
FirstOr(word_matches, word) ==
  IF word_matches # <<>> THEN word_matches[1] ELSE word

\* the per-word pass of correct_spelling
CorrectWord(word, all_terms) ==
  IF Len(word) < 3 THEN word
  ELSE IF \E term \in all_terms : Contains(word, term) THEN word
  ELSE FirstOr(get_close_matches(word, all_terms, 1, threshold), word)

\* correct_spelling's result (corrected_query, was_corrected, suggestions)
Correction(result, was_corrected, suggestions) ==
  [result |-> result, was_corrected |-> was_corrected, suggestions |-> suggestions]

\* the correction takes the case of the query's first letter
Cased(query, c) ==
  IF query # <<>> /\ IsUpperChar(query[1]) THEN Title(c) ELSE c

\* correct_spelling after the exact and substring tests: the whole-query
\* match first, then the word-by-word pass
CorrectFrom(query, words, matches, corrected_words) ==
  IF matches # <<>>
  THEN Correction(Cased(query, matches[1]), TRUE, matches)
  ELSE IF Len(words) > 1 /\ corrected_words # words
  THEN Correction(Cased(query, Join(corrected_words)), TRUE,
                  <<Cased(query, Join(corrected_words))>>)
  ELSE Correction(query, FALSE, <<>>)

\* a correction that skips the partial-match test
CorrectLower_without_partial(query, query_lower, words, all_terms) ==
  IF all_terms = {} THEN Correction(query, FALSE, <<>>)
  ELSE IF query_lower \in all_terms THEN Correction(query, FALSE, <<>>)
  ELSE CorrectFrom(query, words,
                   get_close_matches(query_lower, all_terms, 3, threshold),
                   [i \in 1..Len(words) |-> CorrectWord(words[i], all_terms)])

\* correct_spelling for the lower-cased query and its words
CorrectLower(query, query_lower, words, all_terms) ==
  IF all_terms = {} THEN Correction(query, FALSE, <<>>)
  ELSE IF query_lower \in all_terms THEN Correction(query, FALSE, <<>>)
  ELSE IF \E term \in all_terms :
            Contains(query_lower, term) \/ Contains(term, query_lower)
  THEN Correction(query, FALSE, <<>>)
  ELSE IF \E i \in 1..Len(words) : Len(words[i]) >= 3 /\ words[i] \in all_terms
  THEN Correction(query, FALSE, <<>>)
  ELSE CorrectFrom(query, words,
                   get_close_matches(query_lower, all_terms, 3, threshold),
                   [i \in 1..Len(words) |-> CorrectWord(words[i], all_terms)])

\* correct_spelling(query): (corrected_query, was_corrected, suggestions)
correct_spelling(query, all_terms) ==
  CorrectLower(query, Strip(Lower(query)), Split(Strip(Lower(query))), all_terms)

\* LOWER(field) LIKE LOWER('%term%')
Like(field, term) == Contains(Lower(term), Lower(field))

\* the WHERE clauses of the four tiers
KeywordMatch(row, kw) ==
  Like(row.name, kw) \/ Like(row.category, kw) \/ Like(row.subcategory, kw)
LocationMatch(row, loc) == Like(row.city, loc) \/ Like(row.address, loc)
RawMatch(row, q) == Like(row.name, q) \/ Like(row.category, q) \/ Like(row.city, q)

\* LIMIT 5 of every tier
TierLimit == 5

\* an order by reviews_count first and reviews_average second
RankAbove_count_first(a, b) ==
  LET Avg(r) == IF r.reviews_average = <<>> THEN -1 ELSE r.reviews_average[1]
  IN  \/ a.reviews_count > b.reviews_count
      \/ a.reviews_count = b.reviews_count /\ Avg(a) > Avg(b)

\* ORDER BY reviews_average DESC, reviews_count DESC: a sorts strictly
\* before b (NULL averages sort last)
RankAbove(a, b) ==
  LET Avg(r) == IF r.reviews_average = <<>> THEN -1 ELSE r.reviews_average[1]
  IN  \/ Avg(a) > Avg(b)
      \/ Avg(a) = Avg(b) /\ a.reviews_count > b.reviews_count

\* the orders in which the rows of a match set may be returned: rows with
\* equal sort keys come in an order SQL leaves open
RECURSIVE RankedSeqs(_)
RankedSeqs(rows) ==
  IF rows = {} THEN {<<>>}
  ELSE UNION {{<<r>> \o q : q \in RankedSeqs(rows \ {r})} :
                r \in {x \in rows : \A y \in rows : ~RankAbove(y, x)}}

\* the result sets a tier may return for a match set
TierResults(rows) ==
  {SubSeq(q, 1, IF Len(q) < TierLimit THEN Len(q) ELSE TierLimit) :
     q \in RankedSeqs(rows)}

\* the tier that answers: the first non-empty of keyword and location,
\* keyword only, location only, raw query
Hits(tierA, tierB, tierC, tierD) ==
  IF tierA # {} THEN tierA
  ELSE IF tierB # {} THEN tierB
  ELSE IF tierC # {} THEN tierC
  ELSE tierD

\* the four tiers over the rows for the corrected keyword and location
SearchTiers(rows, user_query, keyword, location, was_corrected) ==
  {[results |-> res, keyword |-> keyword, location |-> location,
    was_corrected |-> was_corrected] :
     res \in TierResults(Hits(
       IF keyword # Empty /\ location # Empty
       THEN {r \in rows : KeywordMatch(r, keyword) /\ LocationMatch(r, location)}
       ELSE {},
       IF keyword # Empty THEN {r \in rows : KeywordMatch(r, keyword)} ELSE {},
       IF location # Empty THEN {r \in rows : LocationMatch(r, location)} ELSE {},
       {r \in rows : RawMatch(r, user_query)}))}

\* the search after spelling correction: kw and loc are correct_spelling's
\* results for the parsed keyword and location
SearchCorrected(db, user_query, parsed, kw, loc) ==
  SearchTiers({db[i] : i \in 1..Len(db)}, user_query,
              IF kw.was_corrected THEN kw.result ELSE parsed.keyword,
              IF loc.was_corrected THEN loc.result ELSE parsed.location,
              kw.was_corrected \/ loc.was_corrected)

\* the search for a parsed query against the corpus all_terms
SearchParsed(db, user_query, parsed, all_terms) ==
  SearchCorrected(db, user_query, parsed,
                  IF parsed.keyword # Empty
                  THEN correct_spelling(parsed.keyword, all_terms)
                  ELSE Correction(Empty, FALSE, <<>>),
                  IF parsed.location # Empty
                  THEN correct_spelling(parsed.location, all_terms)
                  ELSE Correction(Empty, FALSE, <<>>))

\* the outcome when the search connection raises: nothing found, the parsed
\* keyword and location uncorrected
SearchFailed(parsed) ==
  {[results |-> <<>>, keyword |-> parsed.keyword,
    location |-> parsed.location, was_corrected |-> FALSE]}

\* smart_search_business(user_query): the possible outcomes
\* (results, keyword, location, was_corrected); terms_fail and db_fail say
\* whether the corpus read and the search connection raise
smart_search_business(db, user_query, terms_fail, db_fail) ==
  IF db_fail THEN SearchFailed(Parsed(user_query))
  ELSE SearchParsed(db, user_query, Parsed(user_query),
                    get_all_searchable_terms(db, terms_fail))

(***************************************************************************)
(* Session state (st.session_state) and per-turn observations.             *)
(***************************************************************************)
VARIABLES
  chat_mode,         \* "none" (Python None), "show", "update", "add", "search"
  chat_step,         \* step inside the active flow, 0 when idle
  chat_data,         \* fields accumulated by the active flow
  current_business,  \* most recently resolved listing, or None
  store,             \* rows of google_maps_listings, in rowid order
  now,               \* the clock that stamps created_at
  turn,              \* number of turns taken
  mutations,         \* number of turns that changed the table
  last_input,        \* the utterance of the last turn
  response,          \* kind of the reply of the last turn and what it renders
  calls,             \* collaborator calls made during the last turn, in order
  failed,            \* the calls of the last turn that raised
  prev               \* mode, step, data, current_business before the last turn

vars == <<chat_mode, chat_step, chat_data, current_business, store, now, turn,
          mutations,          last_input, response, calls, failed, prev>>

\* the flow state as one value
Session == [mode |-> chat_mode, step |-> chat_step, data |-> chat_data,
            cb |-> current_business]

\* chat_data = {}
EmptyData == <<>>

\* a store of pending values that forgets what it is given
Put_forgetting(data, k, v) == data

\* chat_data[k] = v
Put(data, k, v) ==
  [x \in (DOMAIN data) \cup {k} |-> IF x = k THEN v ELSE data[x]]

\* a reset that forgets to empty chat_data
reset_chat_flow_keeping_data(s) ==
  [mode |-> "none", step |-> 0, data |-> s.data, cb |-> None]

\* src/app.py reset_chat_flow
reset_chat_flow(s) ==
  [mode |-> "none", step |-> 0, data |-> EmptyData, cb |-> None]

\* the combinations of failing call sites explored in one turn that makes
\* the given collaborator calls
Faults(sites) ==
  {{}} \cup {{c} : c \in sites}
       \cup (IF {"update_by_id", "update_by_phone"} \subseteq sites
             THEN {{"update_by_id", "update_by_phone"}} ELSE {})

\* a reply: its kind, the listing it renders (or None), the id it reports
Reply(kind, biz, new_id) == [kind |-> kind, biz |-> biz, new_id |-> new_id]

\* the value of turn in a session whose turns and writes are not counted, so
\* that it may go on for ever
Uncounted == 0 - 1

\* the end of a turn: the session becomes s, the table becomes db, and the
\* reply, the calls made and the calls that raised are recorded
Step(u, s, db, r, cs, fs) ==
  /\ turn # Uncounted => turn < MaxTurns
  /\ (turn # Uncounted /\ db # store) => mutations < MaxWrites
  /\ chat_mode' = s.mode
  /\ chat_step' = s.step
  /\ chat_data' = s.data
  /\ current_business' = s.cb
  /\ store' = db
  /\ response' = r
  /\ calls' = cs
  /\ failed' = fs
  /\ last_input' = u
  /\ prev' = Session
  /\ turn' = IF turn = Uncounted THEN turn ELSE turn + 1
  /\ mutations' = IF turn = Uncounted THEN mutations
                  ELSE mutations + (IF db # store THEN 1 ELSE 0)

\* the end of a turn that leaves the table alone
Observe(u, s, r, cs, fs) == Step(u, s, store, r, cs, fs)

\* src/app.py:1366 the chat turn handler's except branch: the reply is the
\* generic error text, the session is left as the raising call found it
ErrorOccurred == Reply("error_occurred", None, <<>>)

\* a dispatcher that detects the intent of every utterance
FlowActive_ignored == FALSE

\* src/app.py process_chatbot_response: "if st.session_state.chat_mode" sends
\* the utterance to handle_active_flow, and intent detection is skipped
FlowActive == chat_mode # "none"

Init ==
  /\ chat_mode = "none"
  /\ chat_step = 0
  /\ chat_data = EmptyData
  /\ current_business = None
  /\ store = SeedStore
  /\ now = 2
  /\ turn = 0
  /\ mutations = 0
  /\ last_input = Empty
  /\ response = Reply("welcome", None, <<>>)
  /\ calls = <<>>
  /\ failed = {}
  /\ prev = [mode |-> "none", step |-> 0, data |-> EmptyData, cb |-> None]

(***************************************************************************)
(* process_chatbot_response with no flow active: the intent branches that  *)
(* do not search.                                                          *)
(***************************************************************************)
\* intent "greeting": the fixed greeting, nothing changes
Greeting(u) ==
  /\ ~FlowActive
  /\ IntentOf[u] = "greeting"
  /\ Observe(u, Session, Reply("greeting", None, <<>>), <<"detect_intent">>, {})
  /\ UNCHANGED now

\* intents "show", "update", "add": the flow starts at step 1
StartFlow(u) ==
  /\ ~FlowActive
  /\ IntentOf[u] \in {"show", "update", "add"}
  /\ Observe(u, [Session EXCEPT !.mode = IntentOf[u], !.step = 1],
             Reply("prompt", None, <<>>), <<"detect_intent">>, {})
  /\ UNCHANGED now

(***************************************************************************)
(* Searching with no flow active: intent "search" inside                   *)
(* process_chatbot_response, and the chat turn handler's fallback for      *)
(* intent "general".                                                       *)
(***************************************************************************)
\* what a call of the external search collaborator may do: raise, or
\* return no result or some results
OnlineOutcomes == {"raise", "empty", "results"}

\* a failure of the external search answered as "no results"
OnlineReply_unreported(online) ==
  IF online = "results" THEN "search_online" ELSE "search_nothing"

\* src/app.py:575-612 and 1316-1357: the reply after the external search:
\* its results, "no results", or the failure with its reason when it raised
OnlineReply(online) ==
  CASE online = "raise" -> "search_online_failed"
    [] online = "results" -> "search_online"
    [] OTHER -> "search_nothing"

\* an external search that is made whatever the table returned
OnlineWanted_always(db_results) == TRUE

\* src/app.py:547 and 1288 "if db_results: ... else:" the external search is
\* made only when the table returned nothing
OnlineWanted(db_results) == db_results = <<>>

\* local search, then the external collaborator when nothing was found
\* locally; the session is not touched.  f: the failing call sites
SearchTurn(u, query, f, cs) ==
  LET parsed == Parsed(query)
      corrects == parsed.keyword # Empty \/ parsed.location # Empty
      raised == (IF corrects THEN {"terms"} \cap f ELSE {}) \cup ({"search_db"} \cap f)
  IN  \E r \in smart_search_business(store, query, "terms" \in f, "search_db" \in f) :
        IF ~OnlineWanted(r.results)
        THEN Observe(u, Session, Reply("search_found", r.results, <<>>),
                     cs \o <<"smart_search_business">>, raised)
        ELSE \E online \in OnlineOutcomes :
               Observe(u, Session,
                       Reply(OnlineReply(online), r.results, <<>>),
                       cs \o <<"smart_search_business", "search_online">>,
                       raised \cup (IF online = "raise" THEN {"online"} ELSE {}))

\* intent "search": the query is searched at once, no flow is started
DirectSearch(u) ==
  /\ ~FlowActive
  /\ IntentOf[u] = "search"
  /\ IF Len(QueryOf[u]) >= 2
     THEN \E f \in Faults({"search_db", "terms"}) :
            SearchTurn(u, QueryOf[u], f, <<"detect_intent">>)
     ELSE \* the popular categories are read; a failing read is swallowed
          \E f \in Faults({"search_db"}) :
            Observe(u, Session, Reply("ask_search", None, <<>>),
                    <<"detect_intent", "get_suggested_categories">>, f)
  /\ UNCHANGED now

\* intent "general": process_chatbot_response returns None and the chat
\* turn handler searches for the raw utterance
GeneralFallback(u) ==
  /\ ~FlowActive
  /\ IntentOf[u] = "general"
  /\ \E f \in Faults({"search_db", "terms"}) :
       SearchTurn(u, u, f, <<"detect_intent">>)
  /\ UNCHANGED now

(***************************************************************************)
(* handle_active_flow                                                      *)
(***************************************************************************)
\* a cancel test that compares the utterance as typed
IsCancel_as_typed(u) == u \in cancel_words

\* the universal cancel test
IsCancel(u) == Strip(Lower(u)) \in cancel_words

\* a cancel word resets the flow before any mode-specific logic
CancelFlow(u) ==
  /\ FlowActive
  /\ IsCancel(u)
  /\ Observe(u, reset_chat_flow(Session), Reply("cancelled", None, <<>>), <<>>, {})
  /\ UNCHANGED now

\* a validity rule that accepts five digits
Plausible_five_digits(phone) == Len(normalize_phone(phone)) >= 5

\* the phone validity rule of the flows
Plausible(phone) == Len(normalize_phone(phone)) >= 6

\* handle_show_flow, step 1
ShowStep1(u, f) ==
  /\ chat_mode = "show" /\ chat_step = 1
  /\ ~IsCancel(u)
  /\ LET phone == Strip(u)
         businesses == get_businesses_by_phone(store, phone)
     IN  IF ~Plausible(phone)
         THEN Observe(u, Session, Reply("invalid_phone", None, <<>>), <<>>, {})
         ELSE IF "lookup" \in f
         THEN Observe(u, Session, ErrorOccurred,
                      <<"get_businesses_by_phone">>, {"lookup"})
         ELSE IF businesses = <<>>
         THEN Observe(u, reset_chat_flow(Session), Reply("not_found", None, <<>>),
                      <<"get_businesses_by_phone">>, {})
         ELSE Observe(u, [reset_chat_flow(Session) EXCEPT !.cb = businesses[1]],
                      Reply("business_found", businesses[1], <<>>),
                      <<"get_businesses_by_phone">>, {})
  /\ UNCHANGED now

\* handle_update_flow, step 1: phone, lookup, menu
UpdateStep1(u, f) ==
  /\ chat_mode = "update" /\ chat_step = 1
  /\ ~IsCancel(u)
  /\ LET phone == Strip(u)
         businesses == get_businesses_by_phone(store, phone)
     IN  IF ~Plausible(phone)
         THEN Observe(u, Session, Reply("invalid_phone", None, <<>>), <<>>, {})
         ELSE IF "lookup" \in f
         THEN Observe(u, Session, ErrorOccurred,
                      <<"get_businesses_by_phone">>, {"lookup"})
         ELSE IF businesses = <<>>
         THEN Observe(u, reset_chat_flow(Session), Reply("not_found", None, <<>>),
                      <<"get_businesses_by_phone">>, {})
         ELSE Observe(u, [mode |-> chat_mode, step |-> 2,
                          data |-> Put(chat_data, "phone", phone),
                          cb |-> businesses[1]],
                      Reply("update_menu", businesses[1], <<>>),
                      <<"get_businesses_by_phone">>, {})
  /\ UNCHANGED now

\* handle_update_flow, step 2: field selection or done
UpdateStep2(u) ==
  /\ chat_mode = "update" /\ chat_step = 2
  /\ ~IsCancel(u)
  /\ LET field_input == Lower(Strip(u))
         after == reset_chat_flow(Session)
     IN  IF field_input \in done_words
         THEN \* the summary renders current_business as read after the reset
              Observe(u, after, Reply("update_complete", after.cb, <<>>), <<>>, {})
         ELSE IF field_input \notin Selectors
         THEN Observe(u, Session, Reply("menu_reprompt", None, <<>>), <<>>, {})
         ELSE LET chosen == [Session EXCEPT
                               !.data = Put(chat_data, "update_field",
                                            FieldKey(field_input)),
                               !.step = 3]
              IN  IF current_business = None
                  THEN Observe(u, chosen, ErrorOccurred, <<>>, {})
                  ELSE Observe(u, chosen, Reply("ask_new_value", None, <<>>), <<>>, {})
  /\ UNCHANGED now

\* the listing shown after a successful edit: the refreshed row with the
\* edited id, else the first refreshed row, else the listing held before
Refreshed(updated_businesses, business_id, biz) ==
  LET same == {i \in 1..Len(updated_businesses) :
                 business_id # <<>> /\ updated_businesses[i].id = business_id[1]}
  IN  IF updated_businesses = <<>> THEN biz
      ELSE IF same # {}
      THEN updated_businesses[CHOOSE i \in same : \A j \in same : i <= j]
      ELSE updated_businesses[1]

\* handle_update_flow, step 3: the new value is written
UpdateStep3(u, f) ==
  /\ chat_mode = "update" /\ chat_step = 3
  /\ ~IsCancel(u)
  /\ LET new_value == Strip(u)
         biz == current_business
         business_id == IF biz = None THEN <<>> ELSE <<biz.id>>
         phone_for_update == IF "phone" \in DOMAIN chat_data
                             THEN chat_data["phone"] ELSE Empty
         updates == [k \in {chat_data["update_field"]} |-> new_value]
         by_id == update_business(store, business_id, updates, Empty,
                                  "update_by_id" \in f)
         try_id == business_id # <<>>
         ok_id == try_id /\ by_id.ok
         try_phone == ~ok_id /\ phone_for_update # Empty
         by_phone == update_business(store, <<>>, updates, phone_for_update,
                                     "update_by_phone" \in f)
         success == ok_id \/ (try_phone /\ by_phone.ok)
         db == IF ok_id THEN by_id.db
               ELSE IF try_phone /\ by_phone.ok THEN by_phone.db ELSE store
         writes == (IF try_id THEN <<"update_business">> ELSE <<>>)
                   \o (IF try_phone THEN <<"update_business">> ELSE <<>>)
         raised == (IF try_id THEN {"update_by_id"} \cap f ELSE {})
                   \cup (IF try_phone THEN {"update_by_phone"} \cap f ELSE {})
         new_biz == Refreshed(get_businesses_by_phone(db, phone_for_update),
                              business_id, biz)
     IN  IF new_value = Empty
         THEN Observe(u, Session, Reply("empty_value", None, <<>>), <<>>, {})
         ELSE IF "update_field" \notin DOMAIN chat_data
         THEN Observe(u, reset_chat_flow(Session),
                      Reply("something_wrong", None, <<>>), <<>>, {})
         ELSE IF ~success
         THEN Observe(u, Session, Reply("could_not_update", None, <<>>),
                      writes, raised)
         ELSE IF phone_for_update # Empty /\ "lookup" \in f
         THEN \* the refresh raises after the write was committed
              Step(u, reset_chat_flow(Session), db,
                   Reply("error_updating", None, <<>>),
                   writes \o <<"get_businesses_by_phone">>,
                   raised \cup {"lookup"})
         ELSE IF new_biz = None
         THEN \* rendering a missing listing raises inside the try block
              Step(u, reset_chat_flow(Session), db,
                   Reply("error_updating", None, <<>>),
                   writes \o (IF phone_for_update # Empty
                              THEN <<"get_businesses_by_phone">> ELSE <<>>),
                   raised)
         ELSE Step(u, [Session EXCEPT !.cb = new_biz, !.step = 2], db,
                   Reply("updated", new_biz, <<>>),
                   writes \o (IF phone_for_update # Empty
                              THEN <<"get_businesses_by_phone">> ELSE <<>>),
                   raised)
  /\ UNCHANGED now

(***************************************************************************)
(* handle_add_flow: seven steps, one field per turn.                       *)
(***************************************************************************)
\* a collecting step that moves two steps ahead
Collect_skipping(u, key, value) ==
  Observe(u, [Session EXCEPT !.data = Put(chat_data, key, value),
                             !.step = chat_step + 2],
          Reply("next_question", None, <<>>), <<>>, {})

\* a collecting step that stores the field and asks for it again
Collect_standing(u, key, value) ==
  Observe(u, [Session EXCEPT !.data = Put(chat_data, key, value)],
          Reply("next_question", None, <<>>), <<>>, {})

\* a validated field is stored and the flow moves to the next step
Collect(u, key, value) ==
  Observe(u, [Session EXCEPT !.data = Put(chat_data, key, value),
                             !.step = chat_step + 1],
          Reply("next_question", None, <<>>), <<>>, {})

\* an invalid answer that is passed over: the flow moves on without it
Reprompt_advancing(u) ==
  Observe(u, [Session EXCEPT !.step = chat_step + 1],
          Reply("invalid_answer", None, <<>>), <<>>, {})

\* an invalid answer that sends the flow back to its first step
Reprompt_restarting(u) ==
  Observe(u, [Session EXCEPT !.step = 1],
          Reply("invalid_answer", None, <<>>), <<>>, {})

\* an invalid answer: same step, nothing stored
Reprompt(u) == Observe(u, Session, Reply("invalid_answer", None, <<>>), <<>>, {})

\* step 1: name, at least 2 characters
AddStep1(u) ==
  /\ chat_mode = "add" /\ chat_step = 1
  /\ ~IsCancel(u)
  /\ IF Len(Strip(u)) < 2 THEN Reprompt(u) ELSE Collect(u, "name", Strip(u))
  /\ UNCHANGED now

\* step 2: phone, at least 6 digits, stored normalized
AddStep2(u) ==
  /\ chat_mode = "add" /\ chat_step = 2
  /\ ~IsCancel(u)
  /\ IF ~Plausible(Strip(u)) THEN Reprompt(u)
     ELSE Collect(u, "phone_number", normalize_phone(Strip(u)))
  /\ UNCHANGED now

\* step 3: address, at least 5 characters
AddStep3(u) ==
  /\ chat_mode = "add" /\ chat_step = 3
  /\ ~IsCancel(u)
  /\ IF Len(Strip(u)) < 5 THEN Reprompt(u) ELSE Collect(u, "address", Strip(u))
  /\ UNCHANGED now

\* step 4: website, optional
AddStep4(u) ==
  /\ chat_mode = "add" /\ chat_step = 4
  /\ ~IsCancel(u)
  /\ Collect(u, "website",
             IF Lower(Strip(u)) \in skip_words_website THEN Empty ELSE Strip(u))
  /\ UNCHANGED now

\* step 5: category, at least 2 characters
AddStep5(u) ==
  /\ chat_mode = "add" /\ chat_step = 5
  /\ ~IsCancel(u)
  /\ IF Len(Strip(u)) < 2 THEN Reprompt(u) ELSE Collect(u, "category", Strip(u))
  /\ UNCHANGED now

\* the value stored for city and state
PlaceValue(u) ==
  IF Strip(u) # Empty /\ Lower(Strip(u)) \notin skip_words_place
  THEN Strip(u) ELSE Empty

\* step 6: city, optional
AddStep6(u) ==
  /\ chat_mode = "add" /\ chat_step = 6
  /\ ~IsCancel(u)
  /\ Collect(u, "city", PlaceValue(u))
  /\ UNCHANGED now

\* data.get(k, "")
Get(data, k) == IF k \in DOMAIN data THEN data[k] ELSE Empty

\* an add flow that stays at step 7 when the insert gives no identifier
AddGaveUp_keeping_flow(s) == s

\* src/app.py:1009-1016 the insert raised or returned no identifier: the
\* flow is reset and the collected fields with it
AddGaveUp(s) == reset_chat_flow(s)

\* step 7: state, then the listing is inserted; t is the time of the insert;
\* add_business raises ("insert"), returns None ("insert_none") or returns
\* the identifier of the listing
AddStep7(u, f, t) ==
  /\ chat_mode = "add" /\ chat_step = 7
  /\ ~IsCancel(u)
  /\ LET data == Put(chat_data, "state", PlaceValue(u))
         fields == [k \in {"name", "address", "phone_number", "website",
                           "category", "city", "state"} |-> Get(data, k)]
         added == add_business(store, fields, t)
         new_businesses == get_businesses_by_phone(added.db, fields.phone_number)
         found == IF new_businesses = <<>> THEN None ELSE new_businesses[1]
         stored == [Session EXCEPT !.data = data]
     IN  IF "insert" \in f
         THEN /\ Observe(u, AddGaveUp(stored), Reply("add_error", None, <<>>),
                         <<"add_business">>, {"insert"})
              /\ UNCHANGED now
         ELSE IF "insert_none" \in f
         THEN /\ Observe(u, AddGaveUp(stored), Reply("add_failed", None, <<>>),
                         <<"add_business">>, {})
              /\ UNCHANGED now
         ELSE IF added.new_id = 0
         THEN /\ Step(u, AddGaveUp(stored), added.db,
                      Reply("add_failed", None, <<>>), <<"add_business">>, {})
              /\ now' = t
         ELSE IF "lookup" \in f
         THEN /\ Step(u, reset_chat_flow(stored), added.db,
                      Reply("add_error", None, <<>>),
                      <<"add_business", "get_businesses_by_phone">>, {"lookup"})
              /\ now' = t
         ELSE \* current_business is assigned, then the flow is reset
              /\ Step(u, reset_chat_flow([stored EXCEPT !.cb = found]), added.db,
                      Reply("added", data, <<added.new_id>>),
                      <<"add_business", "get_businesses_by_phone">>, {})
              /\ now' = t

Next ==
  \/ \E u \in Inputs(chat_mode, chat_step) : Greeting(u)
  \/ \E u \in Inputs(chat_mode, chat_step) : StartFlow(u)
  \/ \E u \in Inputs(chat_mode, chat_step) : DirectSearch(u)
  \/ \E u \in Inputs(chat_mode, chat_step) : GeneralFallback(u)
  \/ \E u \in Inputs(chat_mode, chat_step) : CancelFlow(u)
  \/ \E u \in Inputs(chat_mode, chat_step), f \in Faults({"lookup"}) :
       ShowStep1(u, f)
  \/ \E u \in Inputs(chat_mode, chat_step), f \in Faults({"lookup"}) :
       UpdateStep1(u, f)
  \/ \E u \in Inputs(chat_mode, chat_step) : UpdateStep2(u)
  \/ \E u \in Inputs(chat_mode, chat_step),
        f \in Faults({"update_by_id", "update_by_phone", "lookup"}) :
       UpdateStep3(u, f)
  \/ \E u \in Inputs(chat_mode, chat_step) : AddStep1(u)
  \/ \E u \in Inputs(chat_mode, chat_step) : AddStep2(u)
  \/ \E u \in Inputs(chat_mode, chat_step) : AddStep3(u)
  \/ \E u \in Inputs(chat_mode, chat_step) : AddStep4(u)
  \/ \E u \in Inputs(chat_mode, chat_step) : AddStep5(u)
  \/ \E u \in Inputs(chat_mode, chat_step) : AddStep6(u)
  \/ \E u \in Inputs(chat_mode, chat_step), f \in Faults({"insert", "insert_none", "lookup"}),
        t \in {now, now + 1} :
       AddStep7(u, f, t)

Spec == Init /\ [][Next]_vars

(***************************************************************************)
(* Intent detection on its own: an utterance that mixes a search phrase    *)
(* with a show or update phrase is typed with no flow active and           *)
(* process_chatbot_response detects its intent.                            *)
(***************************************************************************)
\* words typed between the two phrases and after them
W_space == <<" ">>
W_your == <<" ","y","o","u","r"," ">>
W_in_delhi == <<" ","i","n"," ","D","e","l","h","i">>

\* a search phrase and a show or update phrase, in either order, joined by
\* a blank or by " your ", alone or followed by " in Delhi"
MixedUtterances ==
  {a \o mid \o b \o tail :
     a \in search_keywords, b \in show_keywords \cup update_keywords,
     mid \in {W_space, W_your}, tail \in {Empty, W_in_delhi}}
  \cup
  {b \o mid \o a \o tail :
     a \in search_keywords, b \in show_keywords \cup update_keywords,
     mid \in {W_space, W_your}, tail \in {Empty, W_in_delhi}}

\* the utterance is typed; its intent is not detected yet
IntentInit ==
  /\ chat_mode = "none"
  /\ chat_step = 0
  /\ chat_data = EmptyData
  /\ current_business = None
  /\ store = SeedStore
  /\ now = 2
  /\ turn = 0
  /\ mutations = 0
  /\ last_input \in MixedUtterances
  /\ response = Reply("typed", None, <<>>)
  /\ calls = <<>>
  /\ failed = {}
  /\ prev = [mode |-> "none", step |-> 0, data |-> EmptyData, cb |-> None]

\* process_chatbot_response with no flow active: intent = detect_intent(
\* user_input); the reply records the intent
Classify ==
  /\ ~FlowActive
  /\ response.kind = "typed"
  /\ response' = Reply(detect_intent(last_input), None, <<>>)
  /\ calls' = <<"detect_intent">>
  /\ turn' = turn + 1
  /\ UNCHANGED <<chat_mode, chat_step, chat_data, current_business, store,
                 now, mutations, last_input, failed, prev>>

IntentNext == Classify

IntentSpec == IntentInit /\ [][IntentNext]_vars

(***************************************************************************)
(* The add round trip: a session that starts on a table holding no listing *)
(* of identity 9873312399 and answers the seven prompts of                 *)
(* handle_add_flow with the values of the worked example, typed with or    *)
(* without surrounding blanks and capitals.                                *)
(***************************************************************************)
R_name == <<"J","o","e","'","s"," ","C","a","f","e">>
R_address == <<"1","2"," ","E","l","m"," ","S","t","r","e","e","t">>
R_identity == <<"9","8","7","3","3","1","2","3","9","9">>
R_skip_padded == <<" ","s","k","i","p"," ">>

\* the answers typed at each prompt of the round trip
RoundTripInputs(mode, step) ==
  IF mode = "none" THEN {U_add}
  ELSE IF mode # "add" THEN {}
  ELSE CASE step = 1 -> {R_name, <<" ">> \o R_name}
         [] step = 2 -> {P_known, <<" ">> \o P_known, R_identity}
         [] step = 3 -> {R_address}
         [] step = 4 -> {A_skip, A_SKIP, R_skip_padded}
         [] step = 5 -> {A_Cafe}
         [] step = 6 -> {A_skip, A_SKIP, R_skip_padded}
         [] step = 7 -> {A_skip, A_SKIP, R_skip_padded}
         [] OTHER -> {}

\* a listing with the name and address of the worked example under another
\* identity, and a listing whose identity is a prefix of 9873312399
R_namesake ==
  [SeedStore[1] EXCEPT !.id = 4, !.name = R_name, !.address = R_address,
                       !.phone_number = P_unknown, !.city = Empty,
                       !.state = Empty]
R_prefix ==
  [SeedStore[2] EXCEPT !.id = 5,
                       !.phone_number = <<"9","8","7","3","3","1","2">>]

\* tables without a listing of identity 9873312399
RoundTripStores ==
  { <<>>, <<SeedStore[3]>>, <<R_namesake>>, <<R_prefix>>,
    <<SeedStore[3], R_namesake>>, <<SeedStore[3], R_namesake, R_prefix>> }

RoundTripInit ==
  /\ chat_mode = "none"
  /\ chat_step = 0
  /\ chat_data = EmptyData
  /\ current_business = None
  /\ store \in RoundTripStores
  /\ now = 2
  /\ turn = 0
  /\ mutations = 0
  /\ last_input = Empty
  /\ response = Reply("welcome", None, <<>>)
  /\ calls = <<>>
  /\ failed = {}
  /\ prev = [mode |-> "none", step |-> 0, data |-> EmptyData, cb |-> None]

RoundTripNext ==
  \/ \E u \in RoundTripInputs(chat_mode, chat_step) : StartFlow(u)
  \/ \E u \in RoundTripInputs(chat_mode, chat_step) : AddStep1(u)
  \/ \E u \in RoundTripInputs(chat_mode, chat_step) : AddStep2(u)
  \/ \E u \in RoundTripInputs(chat_mode, chat_step) : AddStep3(u)
  \/ \E u \in RoundTripInputs(chat_mode, chat_step) : AddStep4(u)
  \/ \E u \in RoundTripInputs(chat_mode, chat_step) : AddStep5(u)
  \/ \E u \in RoundTripInputs(chat_mode, chat_step) : AddStep6(u)
  \/ \E u \in RoundTripInputs(chat_mode, chat_step),
        f \in Faults({"insert", "insert_none", "lookup"}), t \in {now, now + 1} :
       AddStep7(u, f, t)

RoundTripSpec == RoundTripInit /\ [][RoundTripNext]_vars

(***************************************************************************)
(* The add flow of the worked example on a table that already holds the    *)
(* business: same name, address and identity, registered earlier with a    *)
(* website and under another category.                                     *)
(***************************************************************************)
R_earlier ==
  [SeedStore[2] EXCEPT !.id = 6, !.name = Lower(R_name), !.address = R_address,
                       !.phone_number = P_known, !.city = Empty,
                       !.state = Empty]

\* tables with and without the earlier registration
ReAddStores ==
  { <<R_earlier>>, <<SeedStore[3], R_earlier>>, <<R_earlier, R_namesake>>,
    <<SeedStore[3]>>, <<R_namesake>> }

ReAddInit ==
  /\ chat_mode = "none"
  /\ chat_step = 0
  /\ chat_data = EmptyData
  /\ current_business = None
  /\ store \in ReAddStores
  /\ now = 2
  /\ turn = 0
  /\ mutations = 0
  /\ last_input = Empty
  /\ response = Reply("welcome", None, <<>>)
  /\ calls = <<>>
  /\ failed = {}
  /\ prev = [mode |-> "none", step |-> 0, data |-> EmptyData, cb |-> None]

ReAddSpec == ReAddInit /\ [][RoundTripNext]_vars

(***************************************************************************)
(* The resolver on its own: smart_search_business applied to a query over  *)
(* a table, with the corpus read and the search connection working or      *)
(* raising.                                                                *)
(***************************************************************************)
\* a row of google_maps_listings
Listing(id, name, address, category, subcategory, city, average, count) ==
  [id |-> id, name |-> name, address |-> address, phone_number |-> Empty,
   website |-> Empty, category |-> category, subcategory |-> subcategory,
   city |-> city, state |-> Empty, area |-> Empty, reviews_count |-> count,
   reviews_average |-> average, created_at |-> 1]

\* seven cafes, two of them with equal ratings at the fifth place and one
\* unrated, and an unrated spa
RankedStore ==
  << Listing(1, <<"B","r","e","w">>, <<"1"," ","E","l","m">>, <<"c","a","f","e">>, <<>>, <<"P","u","n","e">>, <<48>>, 10),
     Listing(2, <<"B","e","a","n">>, <<"9"," ","O","a","k">>, <<"c","a","f","e">>, <<>>, <<"P","u","n","e">>, <<45>>, 10),
     Listing(3, <<"C","u","p">>, <<"9"," ","O","a","k">>, <<"c","a","f","e">>, <<>>, <<"G","o","a">>, <<45>>, 3),
     Listing(4, <<"M","u","g">>, <<"9"," ","O","a","k">>, <<"C","a","f","e">>, <<>>, <<"G","o","a">>, <<40>>, 2),
     Listing(5, <<"D","r","i","p">>, <<"9"," ","O","a","k">>, <<"c","a","f","e">>, <<>>, <<"G","o","a">>, <<30>>, 1),
     Listing(6, <<"S","i","p">>, <<"9"," ","O","a","k">>, <<"c","a","f","e">>, <<>>, <<"G","o","a">>, <<30>>, 1),
     Listing(7, <<"N","o","o","k">>, <<"9"," ","O","a","k">>, <<"c","a","f","e">>, <<>>, <<"G","o","a">>, <<>>, 9),
     Listing(8, <<"Z","e","n">>, <<"3"," ","A","s","h">>, <<"s","p","a">>, <<>>, <<"P","u","n","e">>, <<>>, 0) >>

\* a listing whose subcategory alone holds the word "vegan", and a listing
\* in a city whose name is close to that word
SubcategoryStore ==
  << Listing(1, <<"G","r","e","e","n">>, <<"9"," ","O","a","k">>, <<"f","o","o","d">>, <<"v","e","g","a","n">>, <<"P","u","n","e">>, <<40>>, 3),
     Listing(2, <<"L","u","x">>, <<"3"," ","A","s","h">>, <<"h","o","t","e","l">>, <<>>, <<"V","e","g","a","s">>, <<45>>, 2) >>

ResolverStores == {<<>>, RankedStore, SubcategoryStore}

\* the queries passed to smart_search_business
ResolverQueries ==
  { <<"c","a","f","e">>,
    <<"C","a","f","f","e">>,
    <<"c","a","f","e"," ","p","u","n","e">>,
    <<"c","a","f","e"," ","d","e","l","h","i">>,
    <<"c","a","f","e"," ","e","l","m">>,
    <<"s","p","a"," ","g","o","a">>,
    <<"p","u","n","e">>,
    <<"g","o","a">>,
    <<"z","z","z"," ","p","u","n","e">>,
    <<"p","n","u","e">>,
    <<"q","q","q">>,
    <<"v","e","g","a","n">>,
    <<"v","e","g","a","n"," ","p","u","n","e">>,
    <<"b","e","s","t"," ","c","a","f","e"," ","i","n"," ","g","o","a">> }

ResolverInit ==
  /\ chat_mode = "none"
  /\ chat_step = 0
  /\ chat_data = EmptyData
  /\ current_business = None
  /\ store \in ResolverStores
  /\ now = 2
  /\ turn = 0
  /\ mutations = 0
  /\ last_input \in ResolverQueries
  /\ response = Reply("asked", None, <<>>)
  /\ calls = <<>>
  /\ failed = {}
  /\ prev = [mode |-> "none", step |-> 0, data |-> EmptyData, cb |-> None]

\* one call of smart_search_business(last_input); the reply holds the tuple
\* it returns
Resolve(f) ==
  /\ response.kind = "asked"
  /\ \E r \in smart_search_business(store, last_input, "terms" \in f,
                                    "search_db" \in f) :
       response' = Reply("resolved", r, <<>>)
  /\ calls' = <<"smart_search_business">>
  /\ failed' = f
  /\ turn' = turn + 1
  /\ UNCHANGED <<chat_mode, chat_step, chat_data, current_business, store, now,
                 mutations, last_input, prev>>

ResolverNext == \E f \in Faults({"search_db", "terms"}) : Resolve(f)

ResolverSpec == ResolverInit /\ [][ResolverNext]_vars

(***************************************************************************)
(* The query parser on its own: parse_search_query applied to a text of up *)
(* to three words, stop words and others, one of them holding a stop word  *)
(* inside it.                                                              *)
(***************************************************************************)
ParserWords ==
  { <<"t","h","e">>, <<"b","e","s","t">>, <<"C","a","f","e">>, <<"p","u","n","e">>, <<"i","n","n">> }

\* the texts passed to parse_search_query
ParserTexts ==
  {Empty, V_blank}
    \cup ParserWords
    \cup {a \o <<" ">> \o b : a, b \in ParserWords}
    \cup {a \o <<" ">> \o b \o <<" ">> \o c : a, b, c \in ParserWords}

ParserInit ==
  /\ chat_mode = "none"
  /\ chat_step = 0
  /\ chat_data = EmptyData
  /\ current_business = None
  /\ store = SeedStore
  /\ now = 2
  /\ turn = 0
  /\ mutations = 0
  /\ last_input \in ParserTexts
  /\ response = Reply("asked", None, <<>>)
  /\ calls = <<>>
  /\ failed = {}
  /\ prev = [mode |-> "none", step |-> 0, data |-> EmptyData, cb |-> None]

\* one call of parse_search_query(last_input); the reply holds the pair it
\* returns
Parse ==
  /\ response.kind = "asked"
  /\ response' = Reply("parsed", parse_search_query(last_input), <<>>)
  /\ calls' = <<"parse_search_query">>
  /\ turn' = turn + 1
  /\ UNCHANGED <<chat_mode, chat_step, chat_data, current_business, store, now,
                 mutations, last_input, failed, prev>>

ParserNext == Parse

ParserSpec == ParserInit /\ [][ParserNext]_vars

(***************************************************************************)
(* The spelling corrector on its own: correct_spelling applied to a token  *)
(* against the corpus read from a table.                                   *)
(***************************************************************************)
\* a table whose corpus holds the term "restaurant"
RestaurantStore ==
  << Listing(1, <<"T","a","n","d","o","o","r">>, <<"9"," ","O","a","k">>, <<"R","e","s","t","a","u","r","a","n","t">>, Empty, <<"P","u","n","e">>, <<42>>, 7) >>

CorrectorStores == {<<>>, RankedStore, SubcategoryStore, RestaurantStore}

\* the tokens passed to correct_spelling
CorrectorTokens ==
  { <<"r","e","s","t">>,
    <<"R","e","s","t">>,
    <<"r","e","s","t","a","u","r","a","n">>,
    <<"r","e","s","t","a","u","r","a","n","t">>,
    <<"r","e","s","t","a","u","r","a","n","t","s">>,
    <<"c","a","f","e">>,
    <<" ","C","a","f","e"," ">>,
    <<"c","a","f","e","s">>,
    <<"c","a","f","f","e">>,
    <<"v","e","g","a","n">>,
    <<"p","n","u","e">>,
    <<"z","z","z">>,
    <<"g","o","o","d"," ","c","a","f","f","e">>,
    <<"p","u","n","e"," ","c","a","f","e">>,
    <<"b","e","a","n">> }

CorrectorInit ==
  /\ chat_mode = "none"
  /\ chat_step = 0
  /\ chat_data = EmptyData
  /\ current_business = None
  /\ store \in CorrectorStores
  /\ now = 2
  /\ turn = 0
  /\ mutations = 0
  /\ last_input \in CorrectorTokens
  /\ response = Reply("asked", None, <<>>)
  /\ calls = <<>>
  /\ failed = {}
  /\ prev = [mode |-> "none", step |-> 0, data |-> EmptyData, cb |-> None]

\* one call of correct_spelling(last_input); the reply holds the triple it
\* returns
Correct(f) ==
  /\ response.kind = "asked"
  /\ response' = Reply("corrected",
                       correct_spelling(last_input,
                                        get_all_searchable_terms(store, "terms" \in f)),
                       <<>>)
  /\ calls' = <<"correct_spelling">>
  /\ failed' = f
  /\ turn' = turn + 1
  /\ UNCHANGED <<chat_mode, chat_step, chat_data, current_business, store, now,
                 mutations, last_input, prev>>

CorrectorNext == \E f \in Faults({"terms"}) : Correct(f)

CorrectorSpec == CorrectorInit /\ [][CorrectorNext]_vars

(***************************************************************************)
(* normalize_phone on its own, applied to None and to the texts of up to   *)
(* three characters, and applied again to its own result.                  *)
(***************************************************************************)
PhoneChars == {"0", "1", "9", "+", " ", "a"}

\* the arguments: <<>> stands for None, <<text>> for a text
PhoneArguments ==
  {<<>>} \cup {<<Empty>>}
    \cup {<< <<a>> >> : a \in PhoneChars}
    \cup {<< <<a, b>> >> : a, b \in PhoneChars}
    \cup {<< <<a, b, c>> >> : a, b, c \in PhoneChars}

NormalizeInit ==
  /\ chat_mode = "none"
  /\ chat_step = 0
  /\ chat_data = EmptyData
  /\ current_business = None
  /\ store = SeedStore
  /\ now = 2
  /\ turn = 0
  /\ mutations = 0
  /\ last_input \in PhoneArguments
  /\ response = Reply("asked", None, <<>>)
  /\ calls = <<>>
  /\ failed = {}
  /\ prev = [mode |-> "none", step |-> 0, data |-> EmptyData, cb |-> None]

\* normalize_phone(last_input): None is falsy and gives "" (line 20)
Normalize ==
  /\ response.kind = "asked"
  /\ response' = Reply("normalized",
                       [once |-> IF last_input = <<>> THEN Empty
                                 ELSE normalize_phone(last_input[1])], <<>>)
  /\ calls' = <<"normalize_phone">>
  /\ turn' = turn + 1
  /\ UNCHANGED <<chat_mode, chat_step, chat_data, current_business, store, now,
                 mutations, last_input, failed, prev>>

\* normalize_phone applied to the result of the first call
NormalizeAgain ==
  /\ response.kind = "normalized"
  /\ response' = Reply("normalized_twice",
                       [once |-> response.biz.once,
                        twice |-> normalize_phone(response.biz.once)], <<>>)
  /\ calls' = <<"normalize_phone">>
  /\ turn' = turn + 1
  /\ UNCHANGED <<chat_mode, chat_step, chat_data, current_business, store, now,
                 mutations, last_input, failed, prev>>

NormalizeNext == Normalize \/ NormalizeAgain

NormalizeSpec == NormalizeInit /\ [][NormalizeNext]_vars

(***************************************************************************)
(* get_businesses_by_phone on its own, applied to a phone text over a      *)
(* table.                                                                  *)
(***************************************************************************)
\* four listings of identity 9873312399 written in four ways, created at
\* times 1, 2, 2, 1, between a listing without a phone and listings whose
\* identity is a prefix or an extension of it
TiedStore ==
  << [SeedStore[3] EXCEPT !.id = 1, !.phone_number = Empty],
     [SeedStore[1] EXCEPT !.id = 2, !.created_at = 1],
     [SeedStore[2] EXCEPT !.id = 3, !.created_at = 2],
     R_prefix,
     [SeedStore[1] EXCEPT !.id = 6, !.created_at = 2,
                          !.phone_number = <<"+","9","8","7","3","3","-","1","2","3","9","9">>],
     [SeedStore[2] EXCEPT !.id = 7, !.created_at = 1,
                          !.phone_number = <<"(","9","8","7","3","3",")"," ","1","2","3","9","9">>],
     [SeedStore[2] EXCEPT !.id = 8, !.created_at = 2,
                          !.phone_number = <<"9","8","7","3","3","1","2","3","9","9","0">>] >>

LookupStores == RoundTripStores \cup {SeedStore, TiedStore}

\* the phone texts passed to get_businesses_by_phone
LookupPhones ==
  {P_known, R_identity, P_other, P_unknown, P_short, Empty, U_hi,
   <<"9","8","7","3","3","1","2">>, <<"9","8","7","3","3","1","2","3","9","9","0">>, <<"+","9","8","7","3","3","-","1","2","3","9","9">>}

LookupInit ==
  /\ chat_mode = "none"
  /\ chat_step = 0
  /\ chat_data = EmptyData
  /\ current_business = None
  /\ store \in LookupStores
  /\ now = 2
  /\ turn = 0
  /\ mutations = 0
  /\ last_input \in LookupPhones
  /\ response = Reply("asked", None, <<>>)
  /\ calls = <<>>
  /\ failed = {}
  /\ prev = [mode |-> "none", step |-> 0, data |-> EmptyData, cb |-> None]

\* one call of get_businesses_by_phone(last_input): it returns the list, or
\* the read of the table raises
Lookup(f) ==
  /\ response.kind = "asked"
  /\ response' = IF "lookup" \in f THEN Reply("lookup_raised", None, <<>>)
                 ELSE Reply("looked_up",
                            get_businesses_by_phone(store, last_input), <<>>)
  /\ calls' = <<"get_businesses_by_phone">>
  /\ failed' = f
  /\ turn' = turn + 1
  /\ UNCHANGED <<chat_mode, chat_step, chat_data, current_business, store, now,
                 mutations, last_input, prev>>

LookupNext == \E f \in Faults({"lookup"}) : Lookup(f)

LookupSpec == LookupInit /\ [][LookupNext]_vars

(***************************************************************************)
(* add_business on its own, called twice in a row with the same name,      *)
(* address, area, city, state and identity.                                *)
(***************************************************************************)
\* the arguments of the first call
InsertArguments ==
  [name : {A_Joes}, address : {A_addr, SeedStore[1].address},
   area : {Empty, A_Elm}, city : {Empty, SeedStore[1].city},
   state : {Empty, SeedStore[1].state},
   phone_number : {P_known, P_unknown, Empty},
   website : {Empty}, category : {A_Cafe}]

\* the arguments of a second call for the same listing: the phone typed as
\* before or as digits, the website given or not
SameListing(d) ==
  {[d EXCEPT !.phone_number = p, !.website = w] :
     p \in {d.phone_number, normalize_phone(d.phone_number)},
     w \in {Empty, V_site}}

InsertInit ==
  /\ chat_mode = "none"
  /\ chat_step = 0
  /\ chat_data = EmptyData
  /\ current_business = None
  /\ store \in {<<>>, SeedStore}
  /\ now = 2
  /\ turn = 0
  /\ mutations = 0
  /\ last_input = Empty
  /\ response = Reply("asked", None, <<>>)
  /\ calls = <<>>
  /\ failed = {}
  /\ prev = [mode |-> "none", step |-> 0, data |-> EmptyData, cb |-> None]

\* the first call add_business(**d) at time t; the reply holds the
\* arguments, the id returned and the number of rows after the call
InsertFirst(d, t) ==
  /\ response.kind = "asked"
  /\ store' = add_business(store, d, t).db
  /\ response' = Reply("inserted",
                       [data |-> d, rows |-> Len(add_business(store, d, t).db)],
                       <<add_business(store, d, t).new_id>>)
  /\ now' = t
  /\ calls' = <<"add_business">>
  /\ turn' = turn + 1
  /\ UNCHANGED <<chat_mode, chat_step, chat_data, current_business, mutations,
                 last_input, failed, prev>>

\* the second call, for the same listing, at time t; the reply holds both
\* ids
InsertSecond(t) ==
  /\ response.kind = "inserted"
  /\ \E d \in SameListing(response.biz.data) :
       /\ store' = add_business(store, d, t).db
       /\ response' = Reply("inserted_twice", response.biz,
                            response.new_id \o <<add_business(store, d, t).new_id>>)
  /\ now' = t
  /\ calls' = <<"add_business", "add_business">>
  /\ turn' = turn + 1
  /\ UNCHANGED <<chat_mode, chat_step, chat_data, current_business, mutations,
                 last_input, failed, prev>>

InsertNext ==
  \/ \E d \in InsertArguments, t \in {now, now + 1} : InsertFirst(d, t)
  \/ \E t \in {now, now + 1} : InsertSecond(t)

InsertSpec == InsertInit /\ [][InsertNext]_vars

(***************************************************************************)
(* update_business on its own: a field map written to the listing of an    *)
(* id, or to the listings of an identity.                                  *)
(***************************************************************************)
\* the field maps: empty, allow-listed keys, keys outside the allow-list
\* (a column and a name that is no column), and both kinds together
UpdateMaps ==
  { <<>>,
    [website |-> V_site],
    [phone_number |-> V_newphone],
    [reviews_average |-> Empty],
    [owner |-> A_Joes],
    [city |-> A_Pune, website |-> V_blank, reviews_average |-> Empty] }

UpdateInit ==
  /\ chat_mode = "none"
  /\ chat_step = 0
  /\ chat_data = EmptyData
  /\ current_business = None
  /\ store \in {SeedStore, TiedStore}
  /\ now = 2
  /\ turn = 0
  /\ mutations = 0
  /\ last_input = Empty
  /\ response = Reply("asked", None, <<>>)
  /\ calls = <<>>
  /\ failed = {}
  /\ prev = [mode |-> "none", step |-> 0, data |-> EmptyData, cb |-> None]

\* one call update_business(business_id, updates, phone_number); the reply
\* holds the arguments, the table before the call and the value returned
Update(business_id, updates, phone_number, f) ==
  /\ response.kind = "asked"
  /\ store' = update_business(store, business_id, updates, phone_number,
                              f # {}).db
  /\ response' = Reply("update_returned",
                       [before |-> store, business_id |-> business_id,
                        updates |-> updates, phone_number |-> phone_number,
                        ok |-> update_business(store, business_id, updates,
                                               phone_number, f # {}).ok],
                       <<>>)
  /\ calls' = <<"update_business">>
  /\ failed' = f
  /\ turn' = turn + 1
  /\ UNCHANGED <<chat_mode, chat_step, chat_data, current_business, now,
                 mutations, last_input, prev>>

UpdateNext ==
  \E business_id \in {<<>>, <<1>>, <<2>>, <<9>>}, updates \in UpdateMaps,
     phone_number \in {Empty, P_known, P_other, P_unknown},
     f \in Faults({"update_by_id"}) :
    Update(business_id, updates, phone_number, f)

UpdateSpec == UpdateInit /\ [][UpdateNext]_vars

(***************************************************************************)
(* update_business called by two sessions at once: each call selects the   *)
(* rows, executes one UPDATE under the write lock of the storage and       *)
(* commits.                                                                *)
(***************************************************************************)
\* the two sessions
Writers == {1, 2}

\* an UPDATE that also empties the website of the rows it writes
UpdateRows_clearing_website(db, rows, fu) ==
  [i \in 1..Len(db) |->
     IF i \in rows
     THEN [f \in DOMAIN db[i] |->
             IF f \in DOMAIN fu THEN fu[f]
             ELSE IF f = "website" THEN Empty ELSE db[i][f]]
     ELSE db[i]]

\* src/business/business_update.py:85-92 UPDATE ... SET fields WHERE rowid
\* IN (...): the named columns of the selected rows are set
UpdateRows(db, rows, fu) ==
  [i \in 1..Len(db) |->
     IF i \in rows
     THEN [f \in DOMAIN db[i] |-> IF f \in DOMAIN fu THEN fu[f] ELSE db[i][f]]
     ELSE db[i]]

\* the calls a session may make: a website or a city of listing 1 by id, a
\* website of the listings of an identity, a website of an unknown id
WriterJobs ==
  { [business_id |-> <<1>>, phone_number |-> Empty, updates |-> [website |-> V_site]],
    [business_id |-> <<1>>, phone_number |-> Empty, updates |-> [website |-> <<"y">>]],
    [business_id |-> <<1>>, phone_number |-> Empty, updates |-> [city |-> A_Pune]],
    [business_id |-> <<>>, phone_number |-> P_known, updates |-> [website |-> <<"z">>]],
    [business_id |-> <<9>>, phone_number |-> Empty, updates |-> [website |-> V_site]] }

\* the state of the two calls: where each call is, the rowids it selected,
\* the holder of the write lock and its uncommitted table, and the order of
\* the commits
Calls(job, pc, rows, lock, work, order, before) ==
  [job |-> job, pc |-> pc, rows |-> rows, lock |-> lock, work |-> work,
   order |-> order, before |-> before]

ConcurrentInit ==
  /\ chat_mode = "none"
  /\ chat_step = 0
  /\ chat_data = EmptyData
  /\ current_business = None
  /\ store = SeedStore
  /\ now = 2
  /\ turn = 0
  /\ mutations = 0
  /\ last_input = Empty
  /\ \E job \in [Writers -> WriterJobs] :
       response = Reply("concurrent",
                        Calls(job, [p \in Writers |-> "called"],
                              [p \in Writers |-> {}], <<>>, <<>>, <<>>, SeedStore),
                        <<>>)
  /\ calls = <<>>
  /\ failed = {}
  /\ prev = [mode |-> "none", step |-> 0, data |-> EmptyData, cb |-> None]

\* the state of the calls becomes c and the committed table db
Concurrently(c, db) ==
  /\ response' = Reply("concurrent", c, <<>>)
  /\ store' = db
  /\ UNCHANGED <<chat_mode, chat_step, chat_data, current_business, now, turn,
                 mutations, last_input, calls, failed, prev>>

\* lines 54-82: the SELECTs read the committed table; no row, return False
SelectRows(p) ==
  LET c == response.biz
      found == matching_rowids(store, c.job[p].business_id, c.job[p].phone_number)
  IN  /\ c.pc[p] = "called"
      /\ Concurrently([c EXCEPT !.rows[p] = found,
                                !.pc[p] = IF found = {} THEN "returned_false"
                                          ELSE "selected"],
                      store)

\* lines 85-92: the UPDATE takes the write lock and changes the rows in the
\* transaction of the call
ExecuteUpdate(p) ==
  LET c == response.biz
  IN  /\ c.pc[p] = "selected"
      /\ c.lock = <<>>
      /\ Concurrently([c EXCEPT !.lock = <<p>>,
                                !.work = UpdateRows(store, c.rows[p],
                                           filtered_updates(c.job[p].updates)),
                                !.pc[p] = "executed"],
                      store)

\* lines 98-102: the other session holds the write lock for too long, the
\* UPDATE raises "database is locked", the call rolls back and returns False
LockedOut(p) ==
  LET c == response.biz
  IN  /\ c.pc[p] = "selected"
      /\ c.lock # <<>>
      /\ Concurrently([c EXCEPT !.pc[p] = "returned_false"], store)

\* lines 94-96: commit; the changed rows become the committed table
CommitUpdate(p) ==
  LET c == response.biz
  IN  /\ c.pc[p] = "executed"
      /\ Concurrently([c EXCEPT !.lock = <<>>, !.work = <<>>,
                                !.order = Append(c.order, p),
                                !.pc[p] = "returned_true"],
                      c.work)

ConcurrentNext ==
  \/ \E p \in Writers : SelectRows(p)
  \/ \E p \in Writers : ExecuteUpdate(p)
  \/ \E p \in Writers : LockedOut(p)
  \/ \E p \in Writers : CommitUpdate(p)

ConcurrentSpec == ConcurrentInit /\ [][ConcurrentNext]_vars

(***************************************************************************)
(* add_business called by two sessions at once: each call reads the rows   *)
(* equal to its listing, and when it saw none inserts and commits.         *)
(***************************************************************************)
\* the listings the sessions register: the worked example, the same typed
\* in small letters, and the same under another identity
InsertJobs ==
  LET example == [name |-> R_name, address |-> R_address, city |-> Empty,
                  state |-> Empty, phone_number |-> R_identity,
                  website |-> Empty, category |-> A_Cafe]
  IN  { example,
        [example EXCEPT !.name = Lower(R_name), !.website = V_site],
        [example EXCEPT !.phone_number = P_unknown],
        [example EXCEPT !.city = A_Pune] }

\* the state of the two calls: where each call is and the identifier it
\* returned
Inserts(job, pc, new_id) == [job |-> job, pc |-> pc, new_id |-> new_id]

ConcurrentInsertInit ==
  /\ chat_mode = "none"
  /\ chat_step = 0
  /\ chat_data = EmptyData
  /\ current_business = None
  /\ store \in {<<>>, <<SeedStore[3]>>, <<R_namesake>>}
  /\ now = 2
  /\ turn = 0
  /\ mutations = 0
  /\ last_input = Empty
  /\ \E job \in [Writers -> InsertJobs] :
       response = Reply("inserting",
                        Inserts(job, [p \in Writers |-> "called"],
                                [p \in Writers |-> <<>>]),
                        <<>>)
  /\ calls = <<>>
  /\ failed = {}
  /\ prev = [mode |-> "none", step |-> 0, data |-> EmptyData, cb |-> None]

\* the state of the calls becomes c, the committed table db, the clock t
Inserting(c, db, t) ==
  /\ response' = Reply("inserting", c, <<>>)
  /\ store' = db
  /\ now' = t
  /\ UNCHANGED <<chat_mode, chat_step, chat_data, current_business, turn,
                 mutations, last_input, calls, failed, prev>>

\* src/business/business_add.py:33-59 the SELECT reads the committed
\* table; an equal row ends the call with the id of that row
CheckExisting(p) ==
  LET c == response.biz
      d == c.job[p]
      dup == existing_rows(store, d.name, d.address, Empty, d.city, d.state,
                           normalize_phone(d.phone_number))
  IN  /\ c.pc[p] = "called"
      /\ IF dup # {}
         THEN Inserting([c EXCEPT !.pc[p] = "returned",
                                  !.new_id[p] = <<store[CHOOSE i \in dup :
                                                    \A j \in dup : i <= j].id>>],
                        store, now)
         ELSE Inserting([c EXCEPT !.pc[p] = "checked"], store, now)

\* src/business/business_add.py:61-102 INSERT and commit: the row is
\* appended to the table as it is now, whatever the SELECT saw
InsertRow(p, t) ==
  LET c == response.biz
      d == c.job[p]
      new_id == lastrowid(store)
      row == [id |-> new_id, name |-> d.name, address |-> d.address,
              phone_number |-> normalize_phone(d.phone_number),
              website |-> d.website, category |-> d.category,
              subcategory |-> Empty, city |-> d.city, state |-> d.state,
              area |-> Empty, reviews_count |-> 0, reviews_average |-> <<>>,
              created_at |-> t]
  IN  /\ c.pc[p] = "checked"
      /\ Inserting([c EXCEPT !.pc[p] = "returned", !.new_id[p] = <<new_id>>],
                   Append(store, row), t)

ConcurrentInsertNext ==
  \/ \E p \in Writers : CheckExisting(p)
  \/ \E p \in Writers, t \in {now, now + 1} : InsertRow(p, t)

ConcurrentInsertSpec == ConcurrentInsertInit /\ [][ConcurrentInsertNext]_vars

(***************************************************************************)
(* The chat turn handler: the spam filter is_bot is asked first, and only  *)
(* an utterance it lets through reaches process_chatbot_response.          *)
(***************************************************************************)
\* src/core/bot_detector.py:10-11
bot_greetings ==
  { <<"h","e","l","l","o">>,
    <<"h","i">>,
    <<"h","e","y">>,
    <<"g","r","e","e","t","i","n","g","s">>,
    <<"g","o","o","d"," ","m","o","r","n","i","n","g">>,
    <<"g","o","o","d"," ","a","f","t","e","r","n","o","o","n">>,
    <<"g","o","o","d"," ","e","v","e","n","i","n","g">>,
    <<"h","i"," ","t","h","e","r","e">>,
    <<"h","e","l","l","o"," ","t","h","e","r","e">>,
    <<"h","e","y"," ","t","h","e","r","e">> }

\* re.search(r"(.)\1{6,}", text): one character seven or more times in a row
Repeated(text) ==
  \E i \in 1..(Len(text) - 6) : \A j \in i..(i + 6) : text[j] = text[i]

\* src/core/bot_detector.py is_bot
is_bot(text) ==
  LET text_lower == Strip(Lower(text))
  IN  IF text = Empty THEN TRUE
      ELSE IF text_lower \in bot_greetings
              \/ \E g \in bot_greetings : StartsWith(text_lower, g)
      THEN FALSE
      ELSE IF Len(Strip(text)) < 2 THEN TRUE
      ELSE Repeated(text)

\* src/app.py:1271-1275 the utterance is refused: st.error and st.stop(),
\* the session is left as it was and the flow engine is not called
Refused(u) ==
  /\ is_bot(u)
  /\ Observe(u, Session, Reply("refused", None, <<>>), <<>>, {})
  /\ UNCHANGED now

PipelineNext ==
  \/ \E u \in Inputs(chat_mode, chat_step) : Refused(u)
  \/ \E u \in Inputs(chat_mode, chat_step) : ~is_bot(u) /\ Greeting(u)
  \/ \E u \in Inputs(chat_mode, chat_step) : ~is_bot(u) /\ StartFlow(u)
  \/ \E u \in Inputs(chat_mode, chat_step) : ~is_bot(u) /\ DirectSearch(u)
  \/ \E u \in Inputs(chat_mode, chat_step) : ~is_bot(u) /\ GeneralFallback(u)
  \/ \E u \in Inputs(chat_mode, chat_step) : ~is_bot(u) /\ CancelFlow(u)
  \/ \E u \in Inputs(chat_mode, chat_step), f \in Faults({"lookup"}) :
       ~is_bot(u) /\ ShowStep1(u, f)
  \/ \E u \in Inputs(chat_mode, chat_step), f \in Faults({"lookup"}) :
       ~is_bot(u) /\ UpdateStep1(u, f)
  \/ \E u \in Inputs(chat_mode, chat_step) : ~is_bot(u) /\ UpdateStep2(u)
  \/ \E u \in Inputs(chat_mode, chat_step),
        f \in Faults({"update_by_id", "update_by_phone", "lookup"}) :
       ~is_bot(u) /\ UpdateStep3(u, f)
  \/ \E u \in Inputs(chat_mode, chat_step) : ~is_bot(u) /\ AddStep1(u)
  \/ \E u \in Inputs(chat_mode, chat_step) : ~is_bot(u) /\ AddStep2(u)
  \/ \E u \in Inputs(chat_mode, chat_step) : ~is_bot(u) /\ AddStep3(u)
  \/ \E u \in Inputs(chat_mode, chat_step) : ~is_bot(u) /\ AddStep4(u)
  \/ \E u \in Inputs(chat_mode, chat_step) : ~is_bot(u) /\ AddStep5(u)
  \/ \E u \in Inputs(chat_mode, chat_step) : ~is_bot(u) /\ AddStep6(u)
  \/ \E u \in Inputs(chat_mode, chat_step), f \in Faults({"insert", "insert_none", "lookup"}),
        t \in {now, now + 1} :
       ~is_bot(u) /\ AddStep7(u, f, t)

PipelineSpec == Init /\ [][PipelineNext]_vars

(***************************************************************************)
(* Conversations without end: show and add flows are started again and     *)
(* again, every collaborator call returns, and the user may answer a       *)
(* prompt wrongly any number of times but in the end answers it.           *)
(***************************************************************************)
\* what the user types at each prompt, valid and invalid answers
LiveInputs(mode, step) ==
  CASE mode = "none" -> {U_show, U_add}
    [] mode = "show" -> {P_known, P_unknown, P_short, U_Stop}
    [] mode = "add" /\ step = 1 -> {A_J, A_Joes}
    [] mode = "add" /\ step = 2 -> {P_short, P_known}
    [] mode = "add" /\ step = 3 -> {A_Elm, A_addr, U_cancel}
    [] mode = "add" /\ step = 4 -> {A_na}
    [] mode = "add" /\ step = 5 -> {A_c, A_Cafe}
    [] mode = "add" /\ step = 6 -> {A_skip}
    [] mode = "add" /\ step = 7 -> {A_none}
    [] OTHER -> {}

LiveInit ==
  /\ chat_mode = "none"
  /\ chat_step = 0
  /\ chat_data = EmptyData
  /\ current_business = None
  /\ store \in {SeedStore, <<>>}
  /\ now = 2
  /\ turn = Uncounted
  /\ mutations = 0
  /\ last_input = Empty
  /\ response = Reply("welcome", None, <<>>)
  /\ calls = <<>>
  /\ failed = {}
  /\ prev = [mode |-> "none", step |-> 0, data |-> EmptyData, cb |-> None]

LiveNext ==
  \/ \E u \in LiveInputs(chat_mode, chat_step) : StartFlow(u)
  \/ \E u \in LiveInputs(chat_mode, chat_step) : CancelFlow(u)
  \/ \E u \in LiveInputs(chat_mode, chat_step) : ShowStep1(u, {})
  \/ \E u \in LiveInputs(chat_mode, chat_step) : AddStep1(u)
  \/ \E u \in LiveInputs(chat_mode, chat_step) : AddStep2(u)
  \/ \E u \in LiveInputs(chat_mode, chat_step) : AddStep3(u)
  \/ \E u \in LiveInputs(chat_mode, chat_step) : AddStep4(u)
  \/ \E u \in LiveInputs(chat_mode, chat_step) : AddStep5(u)
  \/ \E u \in LiveInputs(chat_mode, chat_step) : AddStep6(u)
  \/ \E u \in LiveInputs(chat_mode, chat_step), f \in {{}, {"insert_none"}} :
       AddStep7(u, f, now)

\* a turn of an active flow whose answer the step accepts (or that cancels
\* the flow): the reply is not the repeated prompt for an invalid answer
ValidAnswer ==
  /\ FlowActive
  /\ LiveNext
  /\ response'.kind \notin {"invalid_answer", "invalid_phone"}

\* one utterance is handled at a time, and a user who goes on answering a
\* prompt gives an answer the step accepts in the end
LiveSpec == LiveInit /\ [][LiveNext]_vars /\ WF_vars(ValidAnswer)

(***************************************************************************)
(* Properties.  Each is stated over the state after a turn: prev is the    *)
(* session before the turn, last_input the utterance, response the reply,  *)
(* calls and failed the collaborator calls of the turn.                    *)
(***************************************************************************)
Range(seq) == {seq[i] : i \in 1..Len(seq)}

\* the session is idle with nothing left of a flow
IsIdle == chat_mode = "none" /\ chat_step = 0 /\ chat_data = EmptyData

\* the last utterance, trimmed and lower-cased, is one of the cancel words
CancelTyped ==
  Strip(Lower(last_input)) \in
    {<<"c","a","n","c","e","l">>, <<"e","x","i","t">>, <<"q","u","i","t">>,
     <<"s","t","o","p">>, <<"n","e","v","e","r","m","i","n","d">>}

\* C1: in every reachable session state, also after turns in which a
\* collaborator failed, mode none implies step 0 and empty data.
C1_IdleHasNoFlowData ==
  chat_mode = "none" => chat_step = 0 /\ chat_data = EmptyData

\* an add flow holding six fields has just ended idle on a failed insert
C1_Witness ==
  /\ chat_mode = "none"
  /\ prev.mode = "add" /\ prev.step = 7
  /\ DOMAIN prev.data # {}
  /\ "insert" \in failed

\* C2: in every active mode and at every step a cancel word (trimmed,
\* lower-cased) resets the session to mode none, step 0, empty data, is
\* answered with the cancellation acknowledgment, and no storage or
\* external-search call is made in that turn.
C2_CancelResetsWithoutCalls ==
  (prev.mode # "none" /\ CancelTyped) =>
    /\ IsIdle
    /\ response.kind = "cancelled"
    /\ calls = <<>>

\* " Stop " typed at the last prompt of the add flow cancelled it
C2_Witness ==
  /\ prev.mode = "add" /\ prev.step = 7
  /\ DOMAIN prev.data # {}
  /\ last_input = U_Stop
  /\ response.kind = "cancelled"

\* C3: while a flow is active the utterance is consumed by the flow and the
\* intent classifier is not consulted; the mode goes from none to a flow by
\* intent and from a flow to itself or to none, never from one flow to
\* another, even when the utterance holds another flow's intent phrase.
C3_ModeTransitions ==
  /\ prev.mode # "none" =>
       /\ chat_mode \in {prev.mode, "none"}
       /\ "detect_intent" \notin Range(calls)
  /\ prev.mode = "none" =>
       chat_mode \in {"none", "show", "update", "add", "search"}

\* "add business" typed at the update menu left the update flow active
C3_Witness ==
  /\ prev.mode = "update" /\ prev.step = 2
  /\ last_input = U_add
  /\ detect_intent(last_input) = "add"
  /\ chat_mode = "update"

\* C4: in the update flow, for each field of the menu, when the write of
\* step 3 succeeds the flow is back at step 2 in mode update and
\* current_business, which the menu renders, holds the value just written
\* to the edited field.
C4_MenuShowsWrittenValue ==
  (prev.mode = "update" /\ prev.step = 3 /\ response.kind = "updated") =>
    LET field == prev.data["update_field"]
        typed == Strip(last_input)
        written == IF field = "phone_number" THEN SelectSeq(typed, IsDigit)
                   ELSE typed
    IN  /\ chat_mode = "update" /\ chat_step = 2
        /\ current_business # None
        /\ current_business[field] = written

\* C5: a failed write at update step 3 leaves the flow at step 3 with its
\* data unchanged, and "done" typed there ends the flow without a write.
C5_FailedWriteThenDone ==
  [][ /\ response'.kind = "could_not_update" =>
           /\ chat_mode' = "update" /\ chat_step' = 3
           /\ chat_data' = chat_data
      /\ ( /\ chat_mode = "update" /\ chat_step = 3
           /\ response.kind = "could_not_update"
           /\ Strip(Lower(last_input')) = <<"d","o","n","e">> ) =>
           /\ chat_mode' = "none"
           /\ "update_business" \notin Range(calls') ]_vars

\* C6: when the insert of add step 7 returns a new identifier the session
\* is idle and current_business is the first listing of a fresh lookup by
\* the new phone.
C6_AddedListingIsCurrent ==
  response.kind = "added" =>
    /\ IsIdle
    /\ current_business =
         get_businesses_by_phone(store, response.biz["phone_number"])[1]

\* C7: when the storage or the external search collaborator raises at a
\* flow step or in a search, the session is idle after the turn.
C7_RaisingCollaboratorEndsIdle ==
  failed \cap {"lookup", "insert", "online"} # {} => IsIdle

\* C8: whenever a storage or external-search call of a turn fails, also
\* inside the search resolver or the spelling corpus read, the reply of the
\* turn is an error message; a failure never yields an ordinary outcome.
C8_FailuresAreReported ==
  failed # {} =>
    response.kind \in {"error_occurred", "error_updating", "add_error",
                       "could_not_update", "search_online_failed"}

\* C9: at add steps 4 (website), 6 (city) and 7 (state) each of "skip",
\* "none", "n/a", "-", "" (trimmed, any case) is stored as the empty string
\* and every other value is stored as typed.
C9_SkipValuesStoredEmpty ==
  LET typed == Strip(last_input)
      expected == IF Lower(typed) \in {A_skip, A_none, A_na, A_dash, Empty}
                  THEN Empty ELSE typed
  IN  /\ ( /\ prev.mode = "add" /\ prev.step \in {4, 6}
           /\ chat_mode = "add" /\ chat_step = prev.step + 1 ) =>
           chat_data[IF prev.step = 4 THEN "website" ELSE "city"] = expected
      /\ (prev.mode = "add" /\ prev.step = 7 /\ response.kind = "added") =>
           response.biz["state"] = expected

\* the answer passes the validation of the add step (steps 4, 6 and 7
\* accept every answer)
AddAnswerValid(step, u) ==
  CASE step = 1 -> Len(Strip(u)) >= 2
    [] step = 2 -> Len(SelectSeq(Strip(u), IsDigit)) >= 6
    [] step = 3 -> Len(Strip(u)) >= 5
    [] step = 5 -> Len(Strip(u)) >= 2
    [] OTHER -> TRUE

\* the turn kept step and data
AddTurnKept ==
  chat_mode = "add" /\ chat_step = prev.step /\ chat_data = prev.data

\* the turn stored exactly one field and moved one step ahead
AddTurnAdvanced ==
  /\ chat_mode = "add" /\ chat_step = prev.step + 1
  /\ \E k \in DOMAIN chat_data \ DOMAIN prev.data :
       /\ DOMAIN chat_data = DOMAIN prev.data \cup {k}
       /\ \A j \in DOMAIN prev.data : chat_data[j] = prev.data[j]

\* C10 as stated: every turn of the add flow keeps step and data (invalid
\* answer), or stores one field and moves one step ahead, or, at step 7,
\* ends the flow.
C10_AddTurnShape ==
  prev.mode = "add" =>
    \/ AddTurnKept /\ ~AddAnswerValid(prev.step, last_input)
    \/ AddTurnAdvanced /\ AddAnswerValid(prev.step, last_input)
    \/ prev.step = 7 /\ chat_mode = "none"

\* C10 amended: every turn of the add flow keeps step and data (invalid
\* answer), or stores one field and moves one step ahead (valid answer),
\* or ends the flow, which happens at step 7 and, at any step, when the
\* utterance is a cancel word; the step never decreases, never skips and
\* never advances on an invalid answer.
C10_AddTurnShapeOrCancel ==
  prev.mode = "add" =>
    \/ AddTurnKept /\ ~AddAnswerValid(prev.step, last_input)
    \/ AddTurnAdvanced /\ AddAnswerValid(prev.step, last_input)
    \/ IsIdle /\ (prev.step = 7 \/ CancelTyped)

\* the add flow was cancelled at step 3, two fields collected
C10_Witness ==
  /\ prev.mode = "add" /\ prev.step = 3
  /\ DOMAIN prev.data = {"name", "phone_number"}
  /\ CancelTyped
  /\ chat_mode = "none"

\* the lower-cased, trimmed utterance contains a phrase of the table
Mentions(phrases) ==
  \E kw \in phrases : Contains(kw, Strip(Lower(last_input)))

\* the intent of the last utterance was detected
Classified == calls = <<"detect_intent">> /\ response.kind # "typed"

\* C11 as stated: an utterance with a search phrase and a show or update
\* phrase is classified search.
C11_SearchBeforeShowUpdate ==
  ( /\ Classified
    /\ Mentions(search_keywords)
    /\ Mentions(show_keywords \cup update_keywords) ) =>
    response.kind = "search"

\* C11 amended: an utterance with a search phrase and a show or update
\* phrase, and with no greeting phrase in it, is classified search.
C11_SearchBeforeShowUpdateUnlessGreeting ==
  ( /\ Classified
    /\ Mentions(search_keywords)
    /\ Mentions(show_keywords \cup update_keywords)
    /\ ~Mentions(greetings) ) =>
    response.kind = "search"

\* "update my business" followed by "search for" was classified search
C11_Witness ==
  /\ Classified
  /\ Mentions(update_keywords) /\ Mentions(search_keywords)
  /\ ~Mentions(greetings)
  /\ \E b \in update_keywords : StartsWith(last_input, b)
  /\ response.kind = "search"

\* the last turn answered a prompt for a phone: show step 1, update step 1
\* or add step 2
PhoneAsked ==
  \/ prev.mode \in {"show", "update"} /\ prev.step = 1
  \/ prev.mode = "add" /\ prev.step = 2

\* the answer has fewer than 6 digits
FewDigits == Len(SelectSeq(Strip(last_input), IsDigit)) < 6

\* the turn left mode, step and data alone and called no collaborator
RepromptedWithoutCalls ==
  /\ chat_mode = prev.mode /\ chat_step = prev.step /\ chat_data = prev.data
  /\ calls = <<>>

\* C12 as stated: at show step 1, update step 1 and add step 2 an answer
\* with fewer than 6 digits leaves mode, step and data unchanged and causes
\* no storage lookup or write.
C12_ShortPhoneReprompts ==
  (PhoneAsked /\ FewDigits) => RepromptedWithoutCalls

\* C12 amended: the same for every answer that is not a cancel word.
C12_ShortPhoneRepromptsUnlessCancel ==
  (PhoneAsked /\ FewDigits /\ ~CancelTyped) => RepromptedWithoutCalls

\* "12345" was typed at update step 1 and the phone was asked again
C12_Witness ==
  /\ PhoneAsked /\ prev.mode = "update"
  /\ last_input = P_short
  /\ chat_mode = "update" /\ chat_step = 1

\* C13: every plausible phone typed at show step 1 ends the show flow
\* (mode none, step 0, data empty), found or not; when the lookup finds
\* listings, current_business is the first of them.
C13_ShowEndsAfterOneRoundTrip ==
  ( /\ prev.mode = "show" /\ prev.step = 1
    /\ ~CancelTyped /\ ~FewDigits ) =>
    /\ IsIdle
    /\ get_businesses_by_phone(store, Strip(last_input)) # <<>> =>
         current_business = get_businesses_by_phone(store, Strip(last_input))[1]

\* C14: on a table with no listing of identity 9873312399, once the add flow
\* has been completed with "Joe's Cafe", "98733 12399", "12 Elm Street",
\* "skip", "Cafe", "skip", "skip", the lookup of "9873312399" returns exactly
\* one listing, with phone_number "9873312399" and empty website, city, state
C14_AddThenLookup ==
  response.kind = "added" =>
    LET found == get_businesses_by_phone(store, R_identity)
    IN  /\ Len(found) = 1
        /\ found[1].phone_number = R_identity
        /\ found[1].website = Empty
        /\ found[1].city = Empty
        /\ found[1].state = Empty

C14_Witness ==
  /\ response.kind = "added"
  /\ last_input = A_skip
  /\ response.biz.name = R_name
  /\ response.biz.address = R_address
  /\ response.biz.category = A_Cafe
  /\ Len(store) = 4
  /\ store[2] = R_namesake
  /\ store[3] = R_prefix
  /\ store[4].name = R_name
  /\ store[4].phone_number = R_identity

\* the insert was the only call of add step 7: it raised or returned no
\* identifier (every identifier is followed by the lookup)
InsertGaveNoId ==
  /\ prev.mode = "add" /\ prev.step = 7
  /\ calls = <<"add_business">>

\* C15: when the insert of add step 7 raises or returns no identifier, the
\* session is idle after the turn with the collected fields gone, and the
\* reply is the error or the try-again message.
C15_FailedInsertDiscards ==
  InsertGaveNoId =>
    /\ IsIdle
    /\ response.kind \in {"add_error", "add_failed"}
    /\ "insert" \in failed <=> response.kind = "add_error"

C15_Witness ==
  /\ InsertGaveNoId
  /\ response.kind = "add_failed"
  /\ prev.data # EmptyData
  /\ IsIdle

\* the match sets of the four tiers over the table, for a keyword, a
\* location and the query as passed
TierA(kw, loc) ==
  IF kw # Empty /\ loc # Empty
  THEN {r \in Range(store) : KeywordMatch(r, kw) /\ LocationMatch(r, loc)}
  ELSE {}
TierB(kw) == IF kw # Empty THEN {r \in Range(store) : KeywordMatch(r, kw)} ELSE {}
TierC(loc) == IF loc # Empty THEN {r \in Range(store) : LocationMatch(r, loc)} ELSE {}
TierD(q) == {r \in Range(store) : RawMatch(r, q)}

\* the match set of the first tier that is not empty
FirstTier(q, kw, loc) ==
  IF TierA(kw, loc) # {} THEN TierA(kw, loc)
  ELSE IF TierB(kw) # {} THEN TierB(kw)
  ELSE IF TierC(loc) # {} THEN TierC(loc)
  ELSE TierD(q)

\* smart_search_business has returned
Resolved == response.kind = "resolved"

\* C16: the listings returned come from the first non-empty tier in the
\* order keyword and location, keyword, location, raw query, the raw tier
\* matching the query as passed against name, category and city; the result
\* is empty only if all four tiers are empty.
C16_FirstNonEmptyTier ==
  Resolved =>
    LET r == response.biz
    IN  /\ Range(r.results) \subseteq FirstTier(last_input, r.keyword, r.location)
        /\ r.results = <<>> => FirstTier(last_input, r.keyword, r.location) = {}

\* C17: whenever the keyword parsed from the query is contained in the
\* name, category or subcategory of a listing, the result is not empty and
\* holds listings that match the keyword, whatever the location and
\* whatever spelling correction does.
C17_KeywordFallback ==
  ( /\ Resolved
    /\ parse_search_query(last_input).keyword # Empty
    /\ TierB(parse_search_query(last_input).keyword) # {} ) =>
      /\ response.biz.results # <<>>
      /\ Range(response.biz.results)
           \subseteq TierB(parse_search_query(last_input).keyword)

\* a ranks strictly above b: the higher average first, a missing average
\* after every average, then the higher count
OutRanks(a, b) ==
  \/ a.reviews_average # <<>> /\ b.reviews_average = <<>>
  \/ /\ a.reviews_average # <<>> /\ b.reviews_average # <<>>
     /\ a.reviews_average[1] > b.reviews_average[1]
  \/ /\ a.reviews_average = b.reviews_average
     /\ a.reviews_count > b.reviews_count

\* the listings of the answering tier that were not returned
LeftOut ==
  FirstTier(last_input, response.biz.keyword, response.biz.location)
    \ Range(response.biz.results)

\* C20: the tier that answers returns at most 5 listings, ordered by
\* average descending then count descending with missing averages last, and
\* no listing of its match set that was left out ranks strictly above a
\* returned one.
C20_TopFiveRanked ==
  Resolved =>
    LET res == response.biz.results
    IN  /\ Len(res) <= 5
        /\ \A i, j \in 1..Len(res) : i < j => ~OutRanks(res[j], res[i])
        /\ \A i, j \in 1..Len(res) : i # j => res[i] # res[j]
        /\ \A x \in LeftOut, i \in 1..Len(res) : ~OutRanks(x, res[i])

\* five of seven matches returned, an unrated one and one that ties with
\* the fifth left out
C20_Witness ==
  /\ Resolved
  /\ Len(response.biz.results) = 5
  /\ \E x \in LeftOut : x.reviews_average = <<>>
  /\ \E x \in LeftOut :
       /\ ~OutRanks(response.biz.results[5], x)
       /\ ~OutRanks(x, response.biz.results[5])

\* the turn was a search: the resolver was called, and for a search reply
\* response.biz is the local result it returned
SearchTurnDone == "smart_search_business" \in Range(calls)

\* the positions of the external search among the calls of the turn
OnlineCalls == {i \in 1..Len(calls) : calls[i] = "search_online"}

\* C18: in a search turn the external search is called only after the
\* resolver returned an empty local result, never when a local tier had a
\* hit, and at most once in the turn.
C18_OnlineOnlyAfterEmptyLocal ==
  /\ Cardinality(OnlineCalls) <= 1
  /\ \A i \in OnlineCalls :
       /\ \E j \in 1..(i - 1) : calls[j] = "smart_search_business"
       /\ response.biz = <<>>
  /\ (SearchTurnDone /\ response.biz # <<>>) => OnlineCalls = {}

\* an empty local result followed by one external search
C18_Witness ==
  /\ SearchTurnDone
  /\ response.biz = <<>>
  /\ failed = {}
  /\ Cardinality(OnlineCalls) = 1

\* C19: every search turn leaves the session idle, whether the table had
\* hits, the external search had results, had none, or raised; when it
\* raised the turn still answers, with the reply that gives the reason.
C19_SearchTurnEndsIdle ==
  SearchTurnDone =>
    /\ IsIdle
    /\ response.kind \in {"search_found", "search_online", "search_nothing",
                          "search_online_failed"}
    /\ "online" \in failed <=> response.kind = "search_online_failed"

C19_Witness ==
  /\ SearchTurnDone
  /\ IsIdle
  /\ "online" \in failed
  /\ response.kind = "search_online_failed"
  /\ turn > 1

\* the words of a text that are no stop words, in order
RECURSIVE KeptWords(_)
KeptWords(words) ==
  IF words = <<>> THEN <<>>
  ELSE IF \E i \in 1..Len(stop_words) : stop_words[i] = words[1]
  THEN KeptWords(Tail(words))
  ELSE <<words[1]>> \o KeptWords(Tail(words))

\* the reference parse: lower-case and trim, drop the stop-word tokens, the
\* last word left is the location and the words before it the keyword
ReferenceParse(text) ==
  LET words == KeptWords(Split(Strip(Lower(text))))
  IN  IF words = <<>> THEN [keyword |-> Empty, location |-> Empty]
      ELSE IF Len(words) = 1 THEN [keyword |-> words[1], location |-> Empty]
      ELSE [keyword |-> Join(SubSeq(words, 1, Len(words) - 1)),
            location |-> words[Len(words)]]

\* C21: parse_search_query returns the reference parse of its text; in
\* particular no stop word is left as a whole word of keyword or location.
C21_ParseIsTokenRemoval ==
  response.kind = "parsed" =>
    /\ response.biz = ReferenceParse(last_input)
    /\ KeptWords(Split(response.biz.keyword)) = Split(response.biz.keyword)
    /\ KeptWords(Split(response.biz.location)) = Split(response.biz.location)

\* the corpus the corrector read in the turn
CorpusRead == get_all_searchable_terms(store, "terms" \in failed)

\* the lower-cased token is a corpus term, lies inside one, or holds one
KnownToken(token) ==
  \/ Lower(token) \in CorpusRead
  \/ \E term \in CorpusRead :
       Contains(Lower(token), term) \/ Contains(term, Lower(token))

\* C22: a token that is a corpus term, a part of one, or contains one comes
\* back unchanged, not corrected and without suggestions; only the other
\* tokens reach the nearest-neighbour step.
C22_KnownTokenUnchanged ==
  response.kind = "corrected" =>
    /\ KnownToken(last_input) =>
         response.biz = [result |-> last_input, was_corrected |-> FALSE,
                         suggestions |-> <<>>]
    /\ (response.biz.was_corrected \/ response.biz.suggestions # <<>>) =>
         ~KnownToken(last_input)

\* "rest" against a corpus holding "restaurant"
C22_Witness ==
  /\ response.kind = "corrected"
  /\ last_input = <<"r","e","s","t">>
  /\ <<"r","e","s","t","a","u","r","a","n","t">> \in CorpusRead
  /\ ~response.biz.was_corrected

\* the digit characters of a text, in their order
RECURSIVE DigitsOf(_)
DigitsOf(text) ==
  IF text = <<>> THEN <<>>
  ELSE IF text[1] \in {"0", "1", "2", "3", "4", "5", "6", "7", "8", "9"}
  THEN <<text[1]>> \o DigitsOf(Tail(text))
  ELSE DigitsOf(Tail(text))

\* C23: normalize_phone returns exactly the digits of its argument in their
\* order, the empty string for None and for the empty string, and applied to
\* its own result it returns that result.
C23_NormalizeIsDigitsAndIdempotent ==
  response.kind \in {"normalized", "normalized_twice"} =>
    /\ response.biz.once = IF last_input = <<>> THEN Empty
                           ELSE DigitsOf(last_input[1])
    /\ response.kind = "normalized_twice" => response.biz.twice = response.biz.once

\* a text with a leading "+" and a leading zero, normalized twice
C23_Witness ==
  /\ response.kind = "normalized_twice"
  /\ last_input = << <<"+", "0", "9">> >>
  /\ response.biz.twice = <<"0", "9">>

\* the positions in the table of the listings whose phone has the digits of
\* the text, none when the text has no digit
SameDigits(text) ==
  {i \in 1..Len(store) :
     /\ DigitsOf(text) # <<>>
     /\ DigitsOf(store[i].phone_number) = DigitsOf(text)}

\* the position in the table of a listing
PositionOf(row) == CHOOSE i \in 1..Len(store) : store[i] = row

C25_InsertTwiceSameId ==
  response.kind = "inserted_twice" =>
    /\ response.new_id[2] = response.new_id[1]
    /\ Len(store) = response.biz.rows

\* the first call inserted a fourth row into the seeded table and the second
\* call found it
C25_Witness ==
  /\ response.kind = "inserted_twice"
  /\ Len(store) = 4
  /\ response.new_id = <<4, 4>>
  /\ response.biz.data.phone_number = P_known
  /\ store[4].phone_number = R_identity
  /\ store[4].area = A_Elm

\* the fields the storage lets an update write
AllowList ==
  {"name", "address", "phone_number", "website", "category", "subcategory",
   "area", "city", "state"}

\* the positions of the listings an update is aimed at: the listing of the
\* id, or when no listing has the id the listings of the identity
Matched(before, business_id, phone_number) ==
  IF business_id # <<>> /\ \E i \in 1..Len(before) : before[i].id = business_id[1]
  THEN {i \in 1..Len(before) : before[i].id = business_id[1]}
  ELSE {i \in 1..Len(before) :
          /\ DigitsOf(phone_number) # <<>>
          /\ DigitsOf(before[i].phone_number) = DigitsOf(phone_number)}

\* C26: an update changes nothing but allow-listed fields named in the
\* field map, on the matched listings only; keys outside the allow-list are
\* dropped without raising, and unnamed fields and unmatched listings keep
\* their values.
C26_UpdateFrame ==
  response.kind = "update_returned" =>
    LET a == response.biz
    IN  /\ Len(store) = Len(a.before)
        /\ \A i \in 1..Len(store) :
             /\ DOMAIN store[i] = DOMAIN a.before[i]
             /\ \A fld \in DOMAIN store[i] :
                  store[i][fld] # a.before[i][fld] =>
                    /\ fld \in AllowList \cap DOMAIN a.updates
                    /\ i \in Matched(a.before, a.business_id, a.phone_number)
        /\ ( /\ failed = {}
             /\ AllowList \cap DOMAIN a.updates # {}
             /\ Matched(a.before, a.business_id, a.phone_number) # {} ) => a.ok

\* a map with a city, a website and a rating written to the two listings of
\* an identity: city and website change, the rating and the third listing
\* do not
C26_Witness ==
  /\ response.kind = "update_returned"
  /\ response.biz.before = SeedStore
  /\ response.biz.business_id = <<9>>
  /\ response.biz.phone_number = P_known
  /\ DOMAIN response.biz.updates = {"city", "website", "reviews_average"}
  /\ response.biz.ok
  /\ store[1].city = A_Pune /\ store[1].reviews_average = <<40>>
  /\ store[2].website = Empty /\ store[2].reviews_average = <<45>>
  /\ store[3] = SeedStore[3]

\* the field names of the update menu, in menu order
MenuNames ==
  <<S_name, S_address, S_phone, S_website, S_category, S_city, S_state>>

\* the digits of the update menu, in menu order
MenuDigits == <<"1", "2", "3", "4", "5", "6", "7">>

\* the menu entry a selector stands for: its digit, or the place of its name
MenuEntry(field_input) ==
  CHOOSE k \in 1..7 : field_input = <<MenuDigits[k]>> \/ field_input = MenuNames[k]

\* a turn at update step 2 that took the input as a selector
SelectorTaken ==
  /\ prev.mode = "update" /\ prev.step = 2
  /\ chat_mode = "update" /\ chat_step = 3
  /\ \E k \in 1..7 : Lower(Strip(last_input)) \in {<<MenuDigits[k]>>, MenuNames[k]}

\* C27: at update step 2 the digit of a menu entry and the name of the entry
\* store the same field key, and the key stored is one the storage update
\* accepts.
C27_SelectorsStoreAllowedKey ==
  SelectorTaken =>
    /\ "update_field" \in DOMAIN chat_data
    /\ chat_data["update_field"] =
         FieldKey(MenuNames[MenuEntry(Lower(Strip(last_input)))])
    /\ chat_data["update_field"] \in AllowList

\* a turn that ended or cancelled a flow: the universal cancel word, "done"
\* at update step 2, a phone with no listing, or an add that failed
FlowEnded ==
  /\ prev.mode # "none"
  /\ chat_mode = "none"
  /\ response.kind \in {"cancelled", "update_complete", "not_found", "add_failed"}

\* C28: ending or cancelling a flow resets mode, step and data only;
\* current_business still refers to the listing it referred to before.
C28_EndKeepsCurrentBusiness ==
  FlowEnded => current_business = prev.cb

\* the words of the claim that end the update flow at step 2
DoneTyped == Lower(Strip(last_input)) \in {U_done, <<"f","i","n","i","s","h">>, U_no}

\* a turn taken at update step 2
AtUpdateStep2 == prev.mode = "update" /\ prev.step = 2 /\ turn > 0

\* C29: at update step 2 "done", "finish" or "no" ends the flow without a
\* storage write and the summary shows the listing that was being edited;
\* any other input that is no selector and no cancel word leaves mode,
\* step, data and current_business as they were.
C29_DoneEndsWithSummary ==
  AtUpdateStep2 =>
    /\ DoneTyped =>
         /\ chat_mode = "none" /\ chat_step = 0 /\ chat_data = EmptyData
         /\ calls = <<>>
         /\ response.kind = "update_complete"
         /\ response.biz = prev.cb
    /\ ( /\ ~DoneTyped
         /\ ~CancelTyped
         /\ Lower(Strip(last_input)) \notin Selectors ) =>
         /\ chat_mode = "update" /\ chat_step = 2
         /\ chat_data = prev.data
         /\ current_business = prev.cb

\* the turn that asks the user what to search for: a search intent whose
\* utterance leaves no query text
QueryAsked == response.kind = "ask_search"

\* C30: the search flow is entered from the idle state: after the turn that
\* asks for the query text the session is at mode search, step 1, so that
\* the next utterance is consumed as the query text.
C30_SearchFlowEntered ==
  QueryAsked => chat_mode = "search" /\ chat_step = 1

\* the number of storage inserts the turn made
InsertCalls == Cardinality({i \in 1..Len(calls) : calls[i] = "add_business"})

\* the value a collected field had when the turn began ("" when absent)
Collected(k) == IF k \in DOMAIN prev.data THEN prev.data[k] ELSE Empty

\* C31: the storage insert is invoked only at add step 7, once, in the turn
\* that ends the add flow, and only with a collected name of 2 or more
\* characters, a phone of 6 or more digits and nothing else, an address of 5
\* or more characters and a category of 2 or more characters.
C31_InsertOnlyValidatedAtStep7 ==
  InsertCalls > 0 =>
    /\ InsertCalls = 1
    /\ prev.mode = "add" /\ prev.step = 7
    /\ chat_mode = "none"
    /\ Len(Collected("name")) >= 2
    /\ Len(Collected("phone_number")) >= 6
    /\ \A i \in 1..Len(Collected("phone_number")) :
         Collected("phone_number")[i] \in {"0","1","2","3","4","5","6","7","8","9"}
    /\ Len(Collected("address")) >= 5
    /\ Len(Collected("category")) >= 2

\* an add flow whose seventh answer made the one insert of the flow
C31_Witness ==
  /\ InsertCalls = 1
  /\ response.kind = "added"
  /\ prev.mode = "add" /\ prev.step = 7
  /\ Collected("name") = A_Joes

\* a turn taken inside one flow: the mode is the same before and after
SameFlow == turn > 0 /\ prev.mode = chat_mode /\ chat_mode # "none"

\* the loop back of the update flow: a field was written at step 3 and the
\* menu of step 2 is shown again
LoopBack ==
  /\ chat_mode = "update" /\ prev.step = 3 /\ chat_step = 2
  /\ response.kind = "updated"
  /\ \E i \in 1..Len(calls) : calls[i] = "update_business"

\* C32: within one flow the step never decreases from one turn to the
\* next, except that the update flow returns from step 3 to step 2 after a
\* successful field edit.
C32_StepNeverDecreases ==
  SameFlow => chat_step >= prev.step \/ LoopBack

\* the update flow back at its menu after a written field
C32_Witness == SameFlow /\ LoopBack /\ mutations = 1

\* the commits, in order, that wrote field k of row i
WritesTo(i, k) ==
  LET c == response.biz
  IN  {n \in 1..Len(c.order) :
         /\ i \in c.rows[c.order[n]]
         /\ k \in DOMAIN c.job[c.order[n]].updates}

\* the value of the commit that wrote field k of row i last, or the value
\* the table held before the calls
LastWritten(i, k) ==
  LET c == response.biz
      w == WritesTo(i, k)
      n == CHOOSE m \in w : \A x \in w : x <= m
  IN  IF w = {} THEN c.before[i][k]
      ELSE LET v == Strip(c.job[c.order[n]].updates[k])
           IN  IF k = "phone_number" THEN DigitsOf(v) ELSE v

\* C33: when two sessions update a listing at once each update is applied
\* as a whole, a field both wrote holds the value committed last, and
\* fields written by one of them keep that value: at every moment each
\* stored field is the last value committed to it.
C33_LastCommitWins ==
  response.kind = "concurrent" =>
    /\ Len(store) = Len(response.biz.before)
    /\ \A i \in 1..Len(store) : \A k \in DOMAIN store[i] :
         store[i][k] = LastWritten(i, k)

\* both calls committed: two websites for listing 1 (the second one stays),
\* or a website and a city (both stay)
C33_Witness ==
  /\ response.kind = "concurrent"
  /\ response.biz.order = <<2, 1>>
  /\ response.biz.job[2].updates = [website |-> <<"y">>]
  /\ response.biz.job[1].updates = [website |-> V_site]
  /\ response.biz.rows[1] = {1} /\ response.biz.rows[2] = {1}
  /\ store[1].website = V_site

\* a website and a city of listing 1 committed by the two sessions
C33_BothPersist ==
  /\ response.kind = "concurrent"
  /\ Len(response.biz.order) = 2
  /\ store[1].website = V_site /\ store[1].city = A_Pune

\* a turn inside the update flow, after the listing was resolved at step 1,
\* in which no collaborator failed
InsideUpdateFlow ==
  /\ turn > 0
  /\ prev.mode = "update" /\ prev.step >= 2
  /\ chat_mode = "update"
  /\ failed = {}

\* C34: inside one update flow current_business stays the listing resolved
\* at step 1, so every write of the flow goes to that listing id, also
\* after the phone of the listing was edited.
C34_UpdateFlowKeepsListing ==
  (InsideUpdateFlow /\ prev.cb # None) =>
    /\ current_business # None
    /\ current_business.id = prev.cb.id

\* C35: whenever the update flow is at step 2 or 3, current_business is a
\* listing and data holds the phone entered at step 1; at step 3 data also
\* holds the field to update, and the "Something went wrong" reply of
\* step 3 is never given.
C35_UpdateFlowHoldsItsData ==
  /\ (chat_mode = "update" /\ chat_step >= 2) =>
       /\ current_business # None
       /\ "phone" \in DOMAIN chat_data
       /\ Len(DigitsOf(chat_data["phone"])) >= 6
       /\ chat_step = 3 => "update_field" \in DOMAIN chat_data
  /\ response.kind # "something_wrong"

\* the update flow at step 3 for the second time, after a written field
C35_Witness ==
  /\ chat_mode = "update" /\ chat_step = 3
  /\ mutations = 1
  /\ "update_field" \in DOMAIN chat_data
  /\ current_business # None

\* an answer the prompt of the step invites: a digit of the menu at update
\* step 2, a skip value at the website step of the add flow
Invited ==
  /\ turn > 0
  /\ \/ /\ prev.mode = "update" /\ prev.step = 2
        /\ \E k \in 1..7 : Strip(last_input) = <<MenuDigits[k]>>
     \/ /\ prev.mode = "add" /\ prev.step = 4
        /\ Lower(Strip(last_input)) \in
             {<<"s","k","i","p">>, <<"n","o","n","e">>, <<"n","/","a">>, <<"-">>}

\* C36: in the whole turn (spam filter, then flow engine) an answer the
\* prompt invites is not refused before the flow sees it: the digits 1-7 at
\* the update menu and the skip values of the website step reach the step.
C36_InvitedInputReachesFlow ==
  Invited => response.kind # "refused"

\* the fields of the success summary of the add flow
SummaryFields ==
  {"name", "phone_number", "address", "website", "category", "city", "state"}

\* C37: when the add flow reports success with identifier N, the listing
\* with id N in the table holds exactly the name, phone, address, website,
\* category, city and state of the success summary.
C37_SummaryIsStoredListing ==
  response.kind = "added" =>
    \E i \in 1..Len(store) :
      /\ store[i].id = response.new_id[1]
      /\ \A k \in SummaryFields : store[i][k] = response.biz[k]

\* the fourth turn of a session was a successful step-3 edit of the update
\* flow (update, phone, field, value): the table before it is the initial one
FirstEdit ==
  /\ response.kind = "updated"
  /\ prev.mode = "update" /\ prev.step = 3
  /\ turn = 4
  /\ Len(store) = Len(SeedStore)

\* the listings the edit changed
Edited == {i \in 1..Len(store) : store[i] # SeedStore[i]}

\* C38: a successful step-3 edit changes one listing, the one held in
\* current_business, and no other listing of the same identity, also when
\* the write falls back from the id to the identity key.
C38_EditChangesOneListing ==
  FirstEdit =>
    /\ prev.cb # None
    /\ Edited = {i \in 1..Len(store) : SeedStore[i].id = prev.cb.id}

\* two rows that are the same listing: equal name, address, area, city and
\* state and equal identity key
SameTuple(a, b) ==
  /\ a.name = b.name /\ a.address = b.address /\ a.area = b.area
  /\ a.city = b.city /\ a.state = b.state
  /\ DigitsOf(a.phone_number) = DigitsOf(b.phone_number)

\* C39: from a table without duplicates, inserts issued by different
\* sessions in any interleaving leave no two listings with the same name,
\* address, area, city, state and identity key.
C39_NoDuplicateListings ==
  response.kind = "inserting" =>
    \A i, j \in 1..Len(store) : i # j => ~SameTuple(store[i], store[j])

\* C40: when every collaborator call returns and the user in the end gives
\* each step an answer it accepts, every started show flow and every
\* started add flow reaches mode none again.
C40_ShowAndAddFlowsEnd ==
  (chat_mode \in {"show", "add"}) ~> (chat_mode = "none")

\* an add flow that ended with the listing inserted after its seventh
\* accepted answer
C40_Witness ==
  /\ turn = Uncounted
  /\ chat_mode = "none"
  /\ prev.mode = "add" /\ prev.step = 7
  /\ response.kind = "added"

====
